---- MODULE Spec2Model ----
(***************************************************************************)
(* Query engine over a partitioned columnar store                          *)
(* (src/query_engine.py) and the stores the prepare programs build         *)
(* (src/prepare.py, src/prepare_optimized.py, src/prepare_ultra_fast.py).  *)
(*                                                                         *)
(* A data frame is [tag, exc, cols, rows]: tag "df" carries the columns in *)
(* order and the rows in order, each row a function from column name to    *)
(* cell; tag "raise" is an exception leaving the callee (exc its type);    *)
(* tag "None" is Python's None.  Floats are modelled by integers, a mean   *)
(* by the reduced fraction <<numerator, denominator>>, a date by its       *)
(* ordinal, and a null number by Null.                                      *)
(* Polars leaves the order of the groups of group_by and the order of ties *)
(* of sort unspecified: the operators compute one canonical order,         *)
(* Outcomes gives every order such a call of the engine can return and     *)
(* GroupOrders every order a rollup file can be written in.                *)
(***************************************************************************)
EXTENDS Integers, Sequences, FiniteSets, TLC

\* ------------------------------------------------------------------ bounds
\* Largest number of event rows in the ingested input.
MaxRows == 2
\* Largest number of execute_query calls made on one engine.
MaxCalls == 2

\* ------------------------------------------------------------- data model
\* A null number (null_values of the CSV reader); prices are >= 0.
Null == -1
\* A null mean: the mean of no value.
NullAvg == <<0, 0>>

EventTypes == <<"serve", "impression", "click", "purchase">>

\* Columns of a partition file, in file order.
Schema == <<"ts", "type", "auction_id", "advertiser_id", "publisher_id",
            "bid_price", "user_id", "total_price", "country", "ts_dt",
            "day", "week", "hour", "minute">>

\* str.to_date(): an ISO date string to a date (its ordinal in January 2024).
ToDate(s) ==
    CASE s = "2024-01-01" -> 1
      [] s = "2024-01-02" -> 2
      [] s = "2024-01-03" -> 3

\* str(day): a date to the ISO string used in partition file names.
DayStr(d) ==
    CASE d = 1 -> "2024-01-01"
      [] d = 2 -> "2024-01-02"
      [] d = 3 -> "2024-01-03"

\* str.lower() on the column names a query can carry.
Lower(s) ==
    CASE s = "SUM(bid_price)" -> "sum(bid_price)"
      [] s = "AVG(total_price)" -> "avg(total_price)"
      [] s = "COUNT(*)" -> "count(*)"
      [] s = "SUM" -> "sum"
      [] s = "AVG" -> "avg"
      [] s = "COUNT" -> "count"
      [] s = "DESC" -> "desc"
      [] s = "ASC" -> "asc"
      [] OTHER -> s

\* f"{func}({col})" for a lower-case func.
AggName(func, col) ==
    CASE func = "sum" /\ col = "bid_price" -> "sum(bid_price)"
      [] func = "sum" /\ col = "total_price" -> "sum(total_price)"
      [] func = "avg" /\ col = "total_price" -> "avg(total_price)"
      [] func = "avg" /\ col = "bid_price" -> "avg(bid_price)"
      [] func = "count" /\ col = "*" -> "count(*)"
      [] func = "count" /\ col = "bid_price" -> "count(bid_price)"
      [] func = "count" /\ col = "total_price" -> "count(total_price)"
      [] OTHER -> "?(?)"

\* "(" in col
HasParen(col) ==
    col \in {"sum(bid_price)", "sum(total_price)", "avg(total_price)",
             "avg(bid_price)", "count(*)", "count(bid_price)",
             "count(total_price)", "SUM(bid_price)", "AVG(total_price)",
             "COUNT(*)", "?(?)"}

\* Rank of a string cell in the lexicographic order sort() uses.
StrRank(s) ==
    CASE s = "2024-01-01 00:00" -> 1
      [] s = "2024-01-01 00:01" -> 2
      [] s = "2024-01-02 00:00" -> 3
      [] s = "DE" -> 4
      [] s = "US" -> 5
      [] s = "click" -> 6
      [] s = "impression" -> 7
      [] s = "purchase" -> 8
      [] s = "serve" -> 9

\* ------------------------------------------------------------ sequences
Range(s) == {s[i] : i \in 1..Len(s)}

InSeq(x, s) == \E i \in 1..Len(s) : s[i] = x

\* [x for x in s if x in keep]
Restrict(s, keep) == SelectSeq(s, LAMBDA x : x \in keep)

RECURSIVE Flatten(_)
Flatten(ss) == IF ss = <<>> THEN <<>> ELSE Head(ss) \o Flatten(Tail(ss))

\* ----------------------------------------------------------- data frames
Df(cols, rows) == [tag |-> "df", exc |-> "", cols |-> cols, rows |-> rows]

Raise(e) == [tag |-> "raise", exc |-> e, cols |-> <<>>, rows |-> <<>>]

None == [tag |-> "None", exc |-> "", cols |-> <<>>, rows |-> <<>>]

\* pl.DataFrame(): no column, no row.
EmptyFrame == Df(<<>>, <<>>)

Project(row, cols) == [c \in Range(cols) |-> row[c]]

\* df.select(cols): the listed columns in the listed order.
Select(df, cols) ==
    IF df.tag # "df" THEN df
    ELSE IF \E i \in 1..Len(cols) : ~InSeq(cols[i], df.cols)
         THEN Raise("ColumnNotFoundError")
    ELSE IF \E i, j \in 1..Len(cols) : i # j /\ cols[i] = cols[j]
         THEN Raise("DuplicateError")
    ELSE Df(cols, [i \in 1..Len(df.rows) |-> Project(df.rows[i], cols)])

\* df.rename({old: new})
Rename(df, old, new) ==
    IF df.tag # "df" THEN df
    ELSE IF ~InSeq(old, df.cols) THEN Raise("ColumnNotFoundError")
    ELSE LET cols == [i \in 1..Len(df.cols) |->
                         IF df.cols[i] = old THEN new ELSE df.cols[i]]
             Ren(row) == [c \in Range(cols) |->
                             IF c = new THEN row[old] ELSE row[c]]
         IN  Df(cols, [i \in 1..Len(df.rows) |-> Ren(df.rows[i])])

\* df.filter(pred): the rows that satisfy pred (the rows in keep), in
\* their order.
Filter(df, keep) ==
    IF df.tag # "df" THEN df
    ELSE Df(df.cols, SelectSeq(df.rows, LAMBDA r : r \in keep))

\* pl.concat(dfs) of frames with the same columns.
Concat(dfs) ==
    IF dfs = <<>> THEN Raise("ValueError")
    ELSE Df(dfs[1].cols, Flatten([i \in 1..Len(dfs) |-> dfs[i].rows]))

\* ----------------------------------------------------------- aggregation
RECURSIVE Gcd(_, _)
Gcd(a, b) == IF b = 0 THEN a ELSE Gcd(b, a % b)

\* pl.col(col).sum(): nulls are skipped, the sum of no value is 0.
RECURSIVE SumOf(_, _)
SumOf(rows, col) ==
    IF rows = <<>> THEN 0
    ELSE (IF Head(rows)[col] = Null THEN 0 ELSE Head(rows)[col])
         + SumOf(Tail(rows), col)

\* pl.col(col).count(): the number of non-null cells.
CountOf(rows, col) == Len(SelectSeq(rows, LAMBDA r : r[col] # Null))

\* pl.col(col).mean(): the mean of the non-null cells, null when there is none.
MeanOf(rows, col) ==
    LET n == CountOf(rows, col)
        s == SumOf(rows, col)
        g == Gcd(s, n)
    IN  IF n = 0 THEN NullAvg ELSE <<s \div g, n \div g>>

\* One aggregate expression [func, col, alias] over the rows of a group.
AggValue(rows, agg) ==
    CASE agg.func = "sum" -> SumOf(rows, agg.col)
      [] agg.func = "mean" -> MeanOf(rows, agg.col)
      [] agg.func = "count" -> CountOf(rows, agg.col)
      [] agg.func = "len" -> Len(rows)

KeyOf(row, keys) == [i \in 1..Len(keys) |-> row[keys[i]]]

RECURSIVE DistinctKeys(_, _, _)
DistinctKeys(rows, keys, acc) ==
    IF rows = <<>> THEN acc
    ELSE LET k == KeyOf(Head(rows), keys)
         IN  DistinctKeys(Tail(rows), keys,
                          IF InSeq(k, acc) THEN acc ELSE Append(acc, k))

IndexOf(x, s) == CHOOSE i \in 1..Len(s) : s[i] = x

\* df.group_by(keys).agg(aggs): one row per distinct key, here in order of
\* first appearance; columns are the keys, then the aliases.
GroupBy(df, keys, aggs) ==
    IF df.tag # "df" THEN df
    ELSE IF \/ \E i \in 1..Len(keys) : ~InSeq(keys[i], df.cols)
            \/ \E i \in 1..Len(aggs) :
                  aggs[i].func # "len" /\ ~InSeq(aggs[i].col, df.cols)
         THEN Raise("ColumnNotFoundError")
    ELSE IF \E i, j \in 1..Len(aggs) :
               i # j /\ aggs[i].alias = aggs[j].alias
         THEN Raise("DuplicateError")
    ELSE LET ks == DistinctKeys(df.rows, keys, <<>>)
             aliases == [i \in 1..Len(aggs) |-> aggs[i].alias]
             cols == keys \o aliases
             Group(k) == SelectSeq(df.rows, LAMBDA r : KeyOf(r, keys) = k)
             Row(k) == [c \in Range(cols) |->
                           IF InSeq(c, keys) THEN k[IndexOf(c, keys)]
                           ELSE AggValue(Group(k), aggs[IndexOf(c, aliases)])]
         IN  Df(cols, [i \in 1..Len(ks) |-> Row(ks[i])])

\* ---------------------------------------------------------------- sorting
NumericCols == {"advertiser_id", "publisher_id", "bid_price", "total_price",
                "day", "sum(bid_price)", "sum(total_price)", "count(*)",
                "count(bid_price)", "count(total_price)", "sum_bid_price",
                "count"}

AvgCols == {"avg(total_price)", "avg(bid_price)", "avg_total_price"}

\* The cell of column col is null.
IsNull(col, a) ==
    IF col \in NumericCols THEN a = Null
    ELSE IF col \in AvgCols THEN a = NullAvg
    ELSE FALSE

\* a < b for two non-null cells of column col.
CellLess(col, a, b) ==
    IF col \in NumericCols THEN a < b
    ELSE IF col \in AvgCols THEN a[1] * b[2] < b[1] * a[2]
    ELSE StrRank(a) < StrRank(b)

\* a comes strictly before b under sort(col, descending); nulls come first.
Before(col, descending, a, b) ==
    IF IsNull(col, a) \/ IsNull(col, b) THEN IsNull(col, a) /\ ~IsNull(col, b)
    ELSE IF descending THEN CellLess(col, b, a)
    ELSE CellLess(col, a, b)

RECURSIVE InsertSorted(_, _, _, _)
InsertSorted(row, sorted, col, descending) ==
    IF sorted = <<>> THEN <<row>>
    ELSE IF Before(col, descending, row[col], Head(sorted)[col])
         THEN <<row>> \o sorted
         ELSE <<Head(sorted)>> \o InsertSorted(row, Tail(sorted), col, descending)

RECURSIVE SortRows(_, _, _)
SortRows(rows, col, descending) ==
    IF rows = <<>> THEN <<>>
    ELSE InsertSorted(rows[Len(rows)],
                      SortRows(SubSeq(rows, 1, Len(rows) - 1), col, descending),
                      col, descending)

\* df.sort(col, descending=descending), ties in their incoming order.
Sort(df, col, descending) ==
    IF df.tag # "df" THEN df
    ELSE IF ~InSeq(col, df.cols) THEN Raise("ColumnNotFoundError")
    ELSE Df(df.cols, SortRows(df.rows, col, descending))

\* The rows are in sort(col, descending) order.
IsSorted(df, col, descending) ==
    \A i \in 1..(Len(df.rows) - 1) :
        ~Before(col, descending, df.rows[i + 1][col], df.rows[i][col])

\* ------------------------------------------------------- the input rows
\* The epoch milliseconds of the minutes the input rows fall in, as decimal
\* strings (an Int64 beyond the integers of the model checker).
Epoch(minute) ==
    CASE minute = "2024-01-01 00:00" -> "1704067200000"
      [] minute = "2024-01-01 00:01" -> "1704067260000"
      [] minute = "2024-01-02 00:00" -> "1704153600000"

\* An event row with the columns the ingest derives from ts: ts_dt, day,
\* week (the Monday of the week, 2024-01-01 for every row here), hour and
\* minute.
Event(n, type, adv, pub, bid, total, country, day, minute) ==
    [ts |-> Epoch(minute), type |-> type,
     auction_id |-> CASE n = 1 -> "a1" [] n = 2 -> "a2" [] n = 3 -> "a3"
                      [] n = 4 -> "a4" [] n = 5 -> "a5" [] n = 6 -> "a6",
     advertiser_id |-> adv, publisher_id |-> pub,
     bid_price |-> bid, user_id |-> 100 + n, total_price |-> total,
     country |-> country, ts_dt |-> minute \o ":00",
     day |-> day, week |-> 1, hour |-> DayStr(day) \o " 00:00:00",
     minute |-> minute]

\* The event rows an input can hold (the five rows of the reference corpus,
\* and an impression of publisher 10 in a second country).
Corpus ==
    << Event(1, "impression", 1, 10, 1, Null, "US", 1, "2024-01-01 00:00"),
       Event(2, "impression", 1, 10, 3, Null, "US", 1, "2024-01-01 00:01"),
       Event(3, "impression", 2, 11, 4, Null, "DE", 2, "2024-01-02 00:00"),
       Event(4, "purchase", 1, 10, Null, 30, "US", 1, "2024-01-01 00:00"),
       Event(5, "purchase", 2, 11, Null, 10, "DE", 2, "2024-01-02 00:00"),
       Event(6, "impression", 2, 10, 2, Null, "DE", 2, "2024-01-02 00:00") >>

\* The inputs: the rows of Corpus at a set of at most MaxRows positions.
Inputs ==
    { Restrict([i \in 1..Len(Corpus) |-> i], S) :
        S \in {T \in SUBSET (1..Len(Corpus)) : Cardinality(T) <= MaxRows} }

InputRows(input) == [i \in 1..Len(input) |-> Corpus[input[i]]]

\* --------------------------------------------------------------- the store
\* partitioned/type=<T>/day=<D>.parquet for every (T, D) of the rows: the
\* file <<T, D>> holds the rows of that type and day, in input order.
CreatePartitions(rows) ==
    [k \in {<<rows[i].type, DayStr(rows[i].day)>> : i \in 1..Len(rows)} |->
        SelectSeq(rows, LAMBDA r : r.type = k[1] /\ DayStr(r.day) = k[2])]

\* type_dir.exists()
TypeDirExists(parts, type) == \E k \in DOMAIN parts : k[1] = type

\* sorted(type_dir.glob("day=*.parquet")): the files of a type directory
\* in name order.
PartitionFiles(parts, type) ==
    SelectSeq([d \in 1..3 |-> <<type, DayStr(d)>>],
              LAMBDA k : k \in DOMAIN parts)

\* The lazy frames pl.scan_parquet(f).select(cols) of the files of the types.
ScanFiles(parts, types, cols) ==
    LET files == Flatten([i \in 1..Len(types) |->
                             PartitionFiles(parts, types[i])])
    IN  [i \in 1..Len(files) |-> Select(Df(Schema, parts[files[i]]), cols)]

Agg(func, col, alias) == [func |-> func, col |-> col, alias |-> alias]

\* The permutations of 1..n.
Perms(n) == {f \in [1..n -> 1..n] : \A i, j \in 1..n : f[i] = f[j] => i = j}

Permute(df, f) == Df(df.cols, [i \in 1..Len(df.rows) |-> df.rows[f[i]]])

\* The frames group_by(...).agg(...) can return when it computes the groups
\* of df: maintain_order is off, the groups come in any order.
GroupOrders(df) ==
    IF df.tag # "df" THEN {df}
    ELSE {Permute(df, f) : f \in Perms(Len(df.rows))}

\* The functions that take one element of F[k] for every k.
RECURSIVE Choices(_)
Choices(F) ==
    IF DOMAIN F = {} THEN {<<>>}
    ELSE LET k == CHOOSE x \in DOMAIN F : TRUE
             rest == [x \in DOMAIN F \ {k} |-> F[x]]
         IN  {(k :> v) @@ r : v \in F[k], r \in Choices(rest)}

\* One rollup of compute_aggregates_parallel / compute_minimal_aggregates:
\* the frames the group-by over the files of the types can write (the
\* groups in any order unless a sort follows); no file is written when
\* there is no partition file to read.
RollupFromFirstFile(parts, types, cols, keys, aggs, sortcol) ==
    LET dfs == ScanFiles(parts, types, cols)
        g == GroupBy(dfs[1], keys, aggs)
    IN  IF dfs = <<>> THEN {None}
        ELSE IF sortcol = "" THEN GroupOrders(g) ELSE {Sort(g, sortcol, FALSE)}

RollupFromFiles(parts, types, cols, keys, aggs, sortcol) ==
    LET dfs == ScanFiles(parts, types, cols)
        g == GroupBy(Concat(dfs), keys, aggs)
    IN  IF dfs = <<>> THEN {None}
        ELSE IF sortcol = "" THEN GroupOrders(g) ELSE {Sort(g, sortcol, FALSE)}

\* One rollup of DataPreparer._create_aggregations: the frames the group-by
\* over the rows in memory can write; the file is always written.
RollupFromFrame(rows, types, keys, aggs, sortcol) ==
    LET df == Filter(Df(Schema, rows), {r \in Range(rows) : InSeq(r.type, types)})
        g == GroupBy(df, keys, aggs)
    IN  IF sortcol = "" THEN GroupOrders(g) ELSE {Sort(g, sortcol, FALSE)}

\* The files of a function from name to frame-or-None that were written.
Written(files) ==
    [f \in {n \in DOMAIN files : files[n].tag = "df"} |-> files[f]]

\* aggregates/ as prepare_optimized.py can write it.
compute_aggregates_parallel(parts) ==
    LET files ==
      [f \in {"daily_revenue", "country_revenue", "country_purchases",
              "publisher_day_country_revenue", "advertiser_type_counts",
              "minute_revenue"} |->
        CASE f = "daily_revenue" ->
               RollupFromFiles(parts, <<"impression">>, <<"day", "bid_price">>,
                   <<"day">>,
                   <<Agg("sum", "bid_price", "sum_bid_price"),
                     Agg("count", "bid_price", "count_impressions")>>, "day")
          [] f = "country_revenue" ->
               RollupFromFiles(parts, <<"impression">>,
                   <<"country", "bid_price">>, <<"country">>,
                   <<Agg("sum", "bid_price", "sum_bid_price"),
                     Agg("count", "bid_price", "count_impressions")>>, "")
          [] f = "country_purchases" ->
               RollupFromFiles(parts, <<"purchase">>,
                   <<"country", "total_price">>, <<"country">>,
                   <<Agg("sum", "total_price", "sum_total_price"),
                     Agg("mean", "total_price", "avg_total_price"),
                     Agg("count", "total_price", "count_purchases")>>, "")
          [] f = "publisher_day_country_revenue" ->
               RollupFromFiles(parts, <<"impression">>,
                   <<"publisher_id", "day", "country", "bid_price">>,
                   <<"publisher_id", "day", "country">>,
                   <<Agg("sum", "bid_price", "sum_bid_price")>>, "")
          [] f = "advertiser_type_counts" ->
               RollupFromFiles(parts, EventTypes, <<"advertiser_id", "type">>,
                   <<"advertiser_id", "type">>,
                   <<Agg("len", "*", "count")>>, "")
          [] f = "minute_revenue" ->
               RollupFromFiles(parts, <<"impression">>,
                   <<"day", "minute", "bid_price">>, <<"day", "minute">>,
                   <<Agg("sum", "bid_price", "sum_bid_price")>>, "")]
    IN  {Written(a) : a \in Choices(files)}

\* aggregates/ as prepare_ultra_fast.py can write it: three rollups only.
compute_minimal_aggregates(parts) ==
    LET files ==
      [f \in {"daily_revenue", "country_purchases",
              "advertiser_type_counts"} |->
        CASE f = "daily_revenue" ->
               RollupFromFiles(parts, <<"impression">>, <<"day", "bid_price">>,
                   <<"day">>,
                   <<Agg("sum", "bid_price", "sum_bid_price")>>, "day")
          [] f = "country_purchases" ->
               RollupFromFiles(parts, <<"purchase">>,
                   <<"country", "total_price">>, <<"country">>,
                   <<Agg("mean", "total_price", "avg_total_price")>>, "")
          [] f = "advertiser_type_counts" ->
               RollupFromFiles(parts, EventTypes, <<"advertiser_id", "type">>,
                   <<"advertiser_id", "type">>,
                   <<Agg("len", "*", "count")>>, "")]
    IN  {Written(a) : a \in Choices(files)}

\* aggregates/ as prepare.py can write it.
create_aggregations(rows) ==
    LET files ==
    [f \in {"daily_revenue", "country_revenue", "country_purchases",
            "publisher_day_country_revenue", "advertiser_type_counts",
            "minute_revenue"} |->
      CASE f = "daily_revenue" ->
             RollupFromFrame(rows, <<"impression">>, <<"day">>,
                 <<Agg("sum", "bid_price", "sum_bid_price"),
                   Agg("count", "bid_price", "count_impressions")>>, "day")
        [] f = "country_revenue" ->
             RollupFromFrame(rows, <<"impression">>, <<"country">>,
                 <<Agg("sum", "bid_price", "sum_bid_price"),
                   Agg("count", "bid_price", "count_impressions")>>, "")
        [] f = "country_purchases" ->
             RollupFromFrame(rows, <<"purchase">>, <<"country">>,
                 <<Agg("sum", "total_price", "sum_total_price"),
                   Agg("mean", "total_price", "avg_total_price"),
                   Agg("count", "total_price", "count_purchases")>>, "")
        [] f = "publisher_day_country_revenue" ->
             RollupFromFrame(rows, <<"impression">>,
                 <<"publisher_id", "day", "country">>,
                 <<Agg("sum", "bid_price", "sum_bid_price")>>, "")
        [] f = "advertiser_type_counts" ->
             RollupFromFrame(rows, EventTypes, <<"advertiser_id", "type">>,
                 <<Agg("len", "*", "count")>>, "")
        [] f = "minute_revenue" ->
             RollupFromFrame(rows, <<"impression">>, <<"day", "minute">>,
                 <<Agg("sum", "bid_price", "sum_bid_price")>>, "")]
    IN  Choices(files)

\* The three prepare programs.
Programs == {"prepare", "prepare_optimized", "prepare_ultra_fast"}

\* The optimized directories a prepare program can leave for an input.
Prepare(program, input) ==
    LET rows == InputRows(input)
        parts == CreatePartitions(rows)
    IN  {[program |-> program, input |-> input, parts |-> parts,
          aggs |-> a] :
           a \in CASE program = "prepare" -> create_aggregations(rows)
                   [] program = "prepare_optimized" ->
                        compute_aggregates_parallel(parts)
                   [] program = "prepare_ultra_fast" ->
                        compute_minimal_aggregates(parts)}

Stores == UNION {Prepare(p, i) : p \in Programs, i \in Inputs}

\* ------------------------------------------------------------- queries
\* A select entry: a bare column name, or the mapping {func: col}.
Col(name) == [func |-> "", col |-> name]

Fn(func, col) == [func |-> func, col |-> col]

\* isinstance(item, str)
IsStr(item) == item.func = ""

\* name in select
InSelect(name, select) ==
    \E i \in 1..Len(select) : IsStr(select[i]) /\ select[i].col = name

\* any(isinstance(item, dict) and item.get(func) == col for item in select)
HasAgg(func, col, select) ==
    \E i \in 1..Len(select) :
        ~IsStr(select[i]) /\ select[i].func = func /\ select[i].col = col

\* any(w.get("col") == "type" and w.get("op") == "eq" and w.get("val") == val)
HasTypeFilter(where, val) ==
    \E i \in 1..Len(where) :
        where[i].col = "type" /\ where[i].op = "eq" /\ where[i].val = val

\* ------------------------------------------------------ pattern matching
matches_daily_revenue(select, where, group_by) ==
    IF group_by # <<"day">> THEN FALSE
    ELSE IF ~(InSelect("day", select) /\ HasAgg("SUM", "bid_price", select)
              /\ Len(select) = 2)
         THEN FALSE
    ELSE HasTypeFilter(where, "impression") /\ Len(where) = 1

matches_publisher_any_group(select, where, group_by) ==
    /\ InSelect("publisher_id", select)
    /\ HasAgg("SUM", "bid_price", select)
    /\ HasTypeFilter(where, "impression")

matches_publisher_day_revenue(select, where, group_by) ==
    IF ~InSeq("publisher_id", group_by) THEN FALSE
    ELSE /\ InSelect("publisher_id", select)
         /\ HasAgg("SUM", "bid_price", select)
         /\ HasTypeFilter(where, "impression")

matches_country_purchases(select, where, group_by) ==
    IF group_by # <<"country">> THEN FALSE
    ELSE /\ InSelect("country", select)
         /\ HasAgg("AVG", "total_price", select)
         /\ HasTypeFilter(where, "purchase")
         /\ Len(where) = 1

matches_advertiser_type(select, where, group_by) ==
    IF Range(group_by) # {"advertiser_id", "type"} THEN FALSE
    ELSE /\ InSelect("advertiser_id", select)
         /\ InSelect("type", select)
         /\ HasAgg("COUNT", "*", select)
         /\ Len(where) = 0

matches_minute_revenue(select, where, group_by) ==
    IF group_by # <<"minute">> THEN FALSE
    ELSE /\ InSelect("minute", select)
         /\ HasAgg("SUM", "bid_price", select)
         /\ HasTypeFilter(where, "impression")

\* The rollup shape _try_precomputed picks for a query, "" when none.
Shape(query) ==
    LET select == query.select
        where == query.where
        group_by == query.group_by
    IN  CASE matches_daily_revenue(select, where, group_by) -> "daily_revenue"
          [] matches_publisher_day_revenue(select, where, group_by) ->
               "publisher_day_country_revenue"
          [] matches_country_purchases(select, where, group_by) ->
               "country_purchases"
          [] matches_advertiser_type(select, where, group_by) ->
               "advertiser_type_counts"
          [] matches_minute_revenue(select, where, group_by) ->
               "minute_revenue"
          [] OTHER -> ""

\* ----------------------------------------------------------------- order by
\* The column of df that one order_by entry sorts on, "" when it names none:
\* the column itself, else the first column equal to it ignoring case.
SortColumn(cols, col) ==
    IF InSeq(col, cols) THEN col
    ELSE IF \E i \in 1..Len(cols) : Lower(cols[i]) = Lower(col)
         THEN cols[CHOOSE i \in 1..Len(cols) :
                      /\ Lower(cols[i]) = Lower(col)
                      /\ \A j \in 1..(i - 1) : Lower(cols[j]) # Lower(col)]
    ELSE ""

\* order.get("dir", "asc").lower() == "desc"; an absent dir is "".
Descending(order) ==
    Lower(IF order.dir = "" THEN "asc" ELSE order.dir) = "desc"

RECURSIVE apply_order_by(_, _)
apply_order_by(df, order_by) ==
    IF order_by = <<>> \/ df.tag # "df" THEN df
    ELSE LET order == Head(order_by)
             c == SortColumn(df.cols, order.col)
         IN  apply_order_by(
                 IF c = "" THEN df ELSE Sort(df, c, Descending(order)),
                 Tail(order_by))

\* ------------------------------------------------ pre-computed execution
\* _load_aggregate(filename): the frame read from aggregates/, the
\* FileNotFoundError of pl.read_parquet when the file is missing.
load_aggregate(aggs, filename) ==
    IF filename \in DOMAIN aggs THEN aggs[filename]
    ELSE Raise("FileNotFoundError")

query_daily_revenue(aggs, where, order_by) ==
    Select(Rename(load_aggregate(aggs, "daily_revenue"),
                  "sum_bid_price", "sum(bid_price)"),
           <<"day", "sum(bid_price)">>)

\* The filter loop of _query_publisher_day_revenue.
RECURSIVE PublisherFilters(_, _)
PublisherFilters(df, where) ==
    IF where = <<>> \/ df.tag # "df" THEN df
    ELSE LET w == Head(where)
             next ==
               IF w.col = "type" THEN df
               ELSE IF w.col = "country" /\ w.op = "eq"
                    THEN Filter(df, {r \in Range(df.rows) : r.country = w.val})
               ELSE IF w.col = "day" /\ w.op = "between"
                    THEN Filter(df, {r \in Range(df.rows) :
                                       /\ r.day >= ToDate(w.val[1])
                                       /\ r.day <= ToDate(w.val[2])})
               ELSE IF w.col = "day" /\ w.op = "eq"
                    THEN Filter(df, {r \in Range(df.rows) : r.day = ToDate(w.val)})
               ELSE df
         IN  PublisherFilters(next, Tail(where))

query_publisher_day_revenue(aggs, where, group_by, order_by) ==
    LET df == load_aggregate(aggs, "publisher_day_country_revenue")
        filtered == PublisherFilters(df, where)
        grouped == GroupBy(filtered, group_by,
                           <<Agg("sum", "sum_bid_price", "sum_bid_price")>>)
        renamed == Rename(grouped, "sum_bid_price", "sum(bid_price)")
    IN  Select(renamed, group_by \o <<"sum(bid_price)">>)

query_country_purchases(aggs, order_by) ==
    LET df == Select(Rename(load_aggregate(aggs, "country_purchases"),
                            "avg_total_price", "avg(total_price)"),
                     <<"country", "avg(total_price)">>)
    IN  IF order_by # <<>> THEN apply_order_by(df, order_by) ELSE df

query_advertiser_type(aggs, order_by) ==
    LET df == Select(Rename(load_aggregate(aggs, "advertiser_type_counts"),
                            "count", "count(*)"),
                     <<"advertiser_id", "type", "count(*)">>)
    IN  IF order_by # <<>> THEN apply_order_by(df, order_by) ELSE df

\* The filter loop of _query_minute_revenue.
RECURSIVE MinuteFilters(_, _)
MinuteFilters(df, where) ==
    IF where = <<>> \/ df.tag # "df" THEN df
    ELSE LET w == Head(where)
             next == IF w.col = "day" /\ w.op = "eq"
                     THEN Filter(df, {r \in Range(df.rows) : r.day = ToDate(w.val)})
                     ELSE df
         IN  MinuteFilters(next, Tail(where))

query_minute_revenue(aggs, where, order_by) ==
    LET df == MinuteFilters(load_aggregate(aggs, "minute_revenue"), where)
        sel == Select(Rename(df, "sum_bid_price", "sum(bid_price)"),
                      <<"minute", "sum(bid_price)">>)
    IN  IF order_by # <<>> THEN apply_order_by(sel, order_by) ELSE sel

\* _try_precomputed(query) over the rollup files aggs: None when no shape
\* matches.
try_precomputed(aggs, query) ==
    LET select == query.select
        where == query.where
        group_by == query.group_by
        order_by == query.order_by
    IN  IF matches_daily_revenue(select, where, group_by)
        THEN query_daily_revenue(aggs, where, order_by)
        ELSE IF matches_publisher_day_revenue(select, where, group_by)
        THEN query_publisher_day_revenue(aggs, where, group_by, order_by)
        ELSE IF matches_country_purchases(select, where, group_by)
        THEN query_country_purchases(aggs, order_by)
        ELSE IF matches_advertiser_type(select, where, group_by)
        THEN query_advertiser_type(aggs, order_by)
        ELSE IF matches_minute_revenue(select, where, group_by)
        THEN query_minute_revenue(aggs, where, order_by)
        ELSE None

\* ------------------------------------------------------ partition scanning
\* days_to_scan: None (all days), or a list of day strings.
AllDays == [none |-> TRUE, list |-> <<>>]

OnlyDays(list) == [none |-> FALSE, list |-> list]

RECURSIVE DeterminePartitionsFrom(_, _, _)
DeterminePartitionsFrom(where, types_to_scan, days_to_scan) ==
    IF where = <<>> THEN [types |-> types_to_scan, days |-> days_to_scan]
    ELSE LET c == Head(where)
         IN  IF c.col = "type" /\ c.op = "eq"
             THEN DeterminePartitionsFrom(Tail(where), <<c.val>>, days_to_scan)
             ELSE IF c.col = "type" /\ c.op = "in"
             THEN DeterminePartitionsFrom(Tail(where), c.val, days_to_scan)
             ELSE IF c.col = "day" /\ c.op = "eq"
             THEN DeterminePartitionsFrom(Tail(where), types_to_scan,
                                          OnlyDays(<<c.val>>))
             ELSE DeterminePartitionsFrom(Tail(where), types_to_scan,
                                          days_to_scan)

determine_partitions(where) ==
    DeterminePartitionsFrom(where, EventTypes, AllDays)

\* The set of columns _determine_columns collects, before list(columns).
determine_columns(select, where, group_by, order_by) ==
    {select[i].col : i \in {j \in 1..Len(select) : select[j].col # "*"
                                                   \/ IsStr(select[j])}}
    \cup {where[i].col : i \in 1..Len(where)}
    \cup Range(group_by)
    \cup {order_by[i].col : i \in {j \in 1..Len(order_by) :
                                      ~HasParen(order_by[j].col)}}

\* list(columns): the columns of a set in an order Python's set gives, any
\* order (it changes with the hash seed of the process).
ColumnLists(columns) ==
    {f \in [1..Cardinality(columns) -> columns] :
        \A i, j \in DOMAIN f : f[i] = f[j] => i = j}

\* The partition files the loop of _load_partitions opens, in order.
OpenedFiles(parts, types, days) ==
    Flatten([i \in 1..Len(types) |-> PartitionFiles(parts, types[i])])

\* Every column of the file when none of the wanted columns is in it.
AvailableCols(columns) ==
    LET available_cols == SelectSeq(columns, LAMBDA c : InSeq(c, Schema))
    IN  IF available_cols = <<>> THEN Schema ELSE available_cols

\* _load_partitions(types, days, columns): every opened file with the
\* wanted columns it has, in the order of the list `columns`.
load_partitions(parts, types, days, columns) ==
    LET files == OpenedFiles(parts, types, days)
        dfs == [i \in 1..Len(files) |->
                   Select(Df(Schema, parts[files[i]]), AvailableCols(columns))]
    IN  IF dfs = <<>> THEN EmptyFrame ELSE Concat(dfs)

\* df[col].dtype in [pl.Date, pl.Datetime]
IsDateCol(col) == col \in {"ts_dt", "day", "week", "hour"}

\* One where condition on one row; a comparison with a null cell is null,
\* and filter drops the row.
ConditionHolds(r, c) ==
    LET cell == r[c.col]
        Val(v) == IF IsDateCol(c.col) THEN ToDate(v) ELSE v
    IN  IF IsNull(c.col, cell) THEN FALSE
        ELSE CASE c.op = "eq" -> cell = Val(c.val)
               [] c.op = "neq" -> cell # Val(c.val)
               [] c.op = "in" -> InSeq(cell, c.val)
               [] c.op = "between" ->
                    /\ ~CellLess(c.col, cell, Val(c.val[1]))
                    /\ ~CellLess(c.col, Val(c.val[2]), cell)

RECURSIVE apply_filters(_, _)
apply_filters(df, where) ==
    IF where = <<>> \/ df.tag # "df" THEN df
    ELSE LET c == Head(where)
             next ==
               IF ~InSeq(c.col, df.cols) THEN df
               ELSE IF c.op \in {"eq", "neq", "in", "between"}
                    THEN Filter(df, {r \in Range(df.rows) : ConditionHolds(r, c)})
               ELSE df
         IN  apply_filters(next, Tail(where))

\* The aggregation expressions _apply_select builds from the select list.
AggExprs(select) ==
    LET Expr(item) ==
          CASE item.func = "SUM" ->
                 <<Agg("sum", item.col, AggName("sum", item.col))>>
            [] item.func = "AVG" ->
                 <<Agg("mean", item.col, AggName("avg", item.col))>>
            [] item.func = "COUNT" /\ item.col = "*" ->
                 <<Agg("len", "*", "count(*)")>>
            [] item.func = "COUNT" /\ item.col # "*" ->
                 <<Agg("count", item.col, AggName("count", item.col))>>
            [] OTHER -> <<>>
    IN  Flatten([i \in 1..Len(select) |->
                    IF IsStr(select[i]) THEN <<>> ELSE Expr(select[i])])

\* The select_cols of the grouped branch.
SelectCols(select) ==
    [i \in 1..Len(select) |->
        IF IsStr(select[i]) THEN select[i].col
        ELSE AggName(Lower(select[i].func), select[i].col)]

\* The select_cols of the branch without group_by: the bare names only.
BareCols(select) ==
    LET bare == SelectSeq(select, IsStr)
    IN  [i \in 1..Len(bare) |-> bare[i].col]

apply_select(df, select, group_by) ==
    IF df.tag # "df" THEN df
    ELSE IF group_by # <<>>
         THEN Select(GroupBy(df, group_by, AggExprs(select)),
                     SelectCols(select))
    ELSE IF BareCols(select) # <<>> THEN Select(df, BareCols(select))
    ELSE df

\* The lists _determine_columns can return for a query.
ColumnsNeeded(query) ==
    ColumnLists(determine_columns(query.select, query.where, query.group_by,
                                  query.order_by))

\* _execute_scan(query) over the partition files parts, up to the frame
\* _apply_select returns; columns_needed is the list _determine_columns
\* returned.
scan_selected(parts, query, columns_needed) ==
    LET select == query.select
        where == query.where
        group_by == query.group_by
        order_by == query.order_by
        p == determine_partitions(where)
        loaded == load_partitions(parts, p.types, p.days, columns_needed)
        filtered == apply_filters(loaded, where)
    IN  apply_select(filtered, select, group_by)

\* _execute_scan(query) over the partition files parts, columns_needed the
\* list _determine_columns returned.
execute_scan(parts, query, columns_needed) ==
    LET order_by == query.order_by
        selected == scan_selected(parts, query, columns_needed)
    IN  IF order_by # <<>> THEN apply_order_by(selected, order_by)
        ELSE selected

\* The scan of a query without pruning: every partition file of every type
\* is loaded with all its columns, then filtered, selected and ordered as
\* _execute_scan does.
scan_everything(parts, query) ==
    LET loaded == load_partitions(parts, EventTypes, AllDays, Schema)
        filtered == apply_filters(loaded, query.where)
        selected == apply_select(filtered, query.select, query.group_by)
    IN  IF query.order_by # <<>> THEN apply_order_by(selected, query.order_by)
        ELSE selected

\* ------------------------------------------------------------ row orders
\* The last order_by entry that sorts df (0 when none does).
LastSort(cols, order_by) ==
    LET eff == {i \in 1..Len(order_by) : SortColumn(cols, order_by[i].col) # ""}
    IN  IF eff = {} THEN 0 ELSE CHOOSE i \in eff : \A j \in eff : j <= i

\* The frames a computation can return whose canonical result is df:
\* when a sort was applied last, every order of the rows that is sorted on
\* its column (ties in any order); else, when the rows come from a group_by,
\* every order; else the order computed.
Outcomes(df, unordered, order_by) ==
    IF df.tag # "df" THEN {df}
    ELSE LET k == LastSort(df.cols, order_by)
             all == {Permute(df, f) : f \in Perms(Len(df.rows))}
         IN  IF k > 0
             THEN {t \in all : IsSorted(t, SortColumn(df.cols, order_by[k].col),
                                        Descending(order_by[k]))}
             ELSE IF unordered THEN all
             ELSE {df}

\* What _execute_scan can return.
ScanOutcomes(parts, query) ==
    UNION {Outcomes(execute_scan(parts, query, columns_needed),
                    query.group_by # <<>>, query.order_by) :
              columns_needed \in ColumnsNeeded(query)}

\* What the unpruned scan can return.
ScanEverythingOutcomes(parts, query) ==
    Outcomes(scan_everything(parts, query), query.group_by # <<>>,
             query.order_by)

\* What _try_precomputed can return over the rollup files aggs: a file is
\* read in the order it was written in, so only the group_by of the
\* publisher route and a sort on tied values leave the order open.
RouteOutcomes(aggs, query) ==
    LET df == try_precomputed(aggs, query)
        shape == Shape(query)
    IN  IF shape = "daily_revenue" THEN {df}
        ELSE IF shape = "publisher_day_country_revenue"
             THEN Outcomes(df, TRUE, <<>>)
        ELSE Outcomes(df, FALSE, query.order_by)

\* ------------------------------------------------------ the query documents
Where(col, op, val) == [col |-> col, op |-> op, val |-> val]

Order(col, dir) == [col |-> col, dir |-> dir]

Query(select, from, where, group_by, order_by) ==
    [select |-> select, from |-> from, where |-> where,
     group_by |-> group_by, order_by |-> order_by]

Impressions == Where("type", "eq", "impression")

Purchases == Where("type", "eq", "purchase")

SumBid == Fn("SUM", "bid_price")

\* The DailyRevenue shape: as in the reference scenario, ordered by day
\* descending, and with the aggregate listed first.
DailyQueries ==
    { Query(<<Col("day"), SumBid>>, "events", <<Impressions>>, <<"day">>, <<>>),
      Query(<<Col("day"), SumBid>>, "events", <<Impressions>>, <<"day">>,
            <<Order("day", "desc")>>),
      Query(<<SumBid, Col("day")>>, "events", <<Impressions>>, <<"day">>, <<>>) }

\* The PublisherRevenue shape: with a day range, with a filter outside the
\* shape, grouped by more columns than selected, and ordered.
PublisherQueries ==
    { Query(<<Col("publisher_id"), SumBid>>, "events",
            <<Impressions, Where("day", "between", <<"2024-01-01", "2024-01-01">>)>>,
            <<"publisher_id">>, <<>>),
      Query(<<Col("publisher_id"), SumBid>>, "events",
            <<Impressions, Where("advertiser_id", "eq", 1)>>,
            <<"publisher_id">>, <<>>),
      Query(<<Col("publisher_id"), SumBid>>, "events",
            <<Impressions, Where("country", "eq", "US")>>,
            <<"publisher_id", "country">>, <<>>),
      Query(<<Col("publisher_id"), SumBid>>, "events", <<Impressions>>,
            <<"publisher_id">>, <<Order("sum(bid_price)", "desc")>>) }

\* The CountryPurchases shape: plain, ordered, and with one more aggregate.
CountryQueries ==
    { Query(<<Col("country"), Fn("AVG", "total_price")>>, "events",
            <<Purchases>>, <<"country">>, <<>>),
      Query(<<Col("country"), Fn("AVG", "total_price")>>, "events",
            <<Purchases>>, <<"country">>, <<Order("country", "desc")>>),
      Query(<<Col("country"), Fn("AVG", "total_price"),
              Fn("SUM", "total_price")>>, "events",
            <<Purchases>>, <<"country">>, <<>>) }

\* The AdvertiserType shape.
AdvertiserQueries ==
    { Query(<<Col("advertiser_id"), Col("type"), Fn("COUNT", "*")>>, "events",
            <<>>, <<"advertiser_id", "type">>, <<>>),
      Query(<<Col("advertiser_id"), Col("type"), Fn("COUNT", "*")>>, "events",
            <<>>, <<"type", "advertiser_id">>,
            <<Order("COUNT(*)", "")>>) }

\* The MinuteRevenue shape: filtered by day and ordered, and with a filter
\* outside the shape.
MinuteQueries ==
    { Query(<<Col("minute"), SumBid>>, "events",
            <<Impressions, Where("day", "eq", "2024-01-01")>>,
            <<"minute">>, <<Order("minute", "asc")>>),
      Query(<<Col("minute"), SumBid>>, "events",
            <<Impressions, Where("country", "eq", "US")>>,
            <<"minute">>, <<>>) }

\* Queries no shape matches.
ScanQueries ==
    { Query(<<Col("country"), SumBid>>, "events",
            <<Impressions, Where("country", "in", <<"US">>)>>,
            <<"country">>, <<>>),
      Query(<<Col("country"), Fn("COUNT", "*")>>, "events",
            <<Purchases>>, <<"country">>, <<>>),
      Query(<<Col("country"), Col("publisher_id")>>, "events",
            <<Where("day", "eq", "2024-01-01")>>, <<>>,
            <<Order("country", "asc")>>),
      Query(<<Col("type"), Fn("COUNT", "*")>>, "events",
            <<Where("type", "in", <<"purchase", "impression">>)>>,
            <<"type">>, <<Order("type", "desc")>>),
      Query(<<Col("country"), Col("publisher_id")>>, "events",
            <<Impressions>>, <<>>,
            <<Order("publisher_id", ""), Order("country", "asc")>>),
      Query(<<Col("publisher_id"), Col("bid_price")>>, "events",
            <<Impressions, Where("bid_price", "gt", 2)>>, <<>>, <<>>),
      Query(<<Fn("COUNT", "*")>>, "events",
            <<Impressions, Where("country", "eq", "US")>>, <<>>, <<>>),
      Query(<<Fn("COUNT", "*")>>, "events", <<>>, <<>>, <<>>) }

\* A query on another table than events.
OtherTableQueries ==
    { Query(<<Col("day"), SumBid>>, "users", <<Impressions>>, <<"day">>, <<>>),
      Query(<<Col("country"), Fn("COUNT", "*")>>, "users",
            <<Purchases>>, <<"country">>, <<>>) }

Queries ==
    DailyQueries \cup PublisherQueries \cup CountryQueries
    \cup AdvertiserQueries \cup MinuteQueries \cup ScanQueries
    \cup OtherTableQueries

\* The queries a caller sends to an engine: one of each shape, two scans,
\* and one on another table.
EngineQueries ==
    { Query(<<Col("day"), SumBid>>, "events", <<Impressions>>, <<"day">>, <<>>),
      Query(<<Col("publisher_id"), SumBid>>, "events",
            <<Impressions, Where("day", "between", <<"2024-01-01", "2024-01-01">>)>>,
            <<"publisher_id">>, <<>>),
      Query(<<Col("country"), Fn("AVG", "total_price")>>, "events",
            <<Purchases>>, <<"country">>, <<Order("country", "desc")>>),
      Query(<<Col("advertiser_id"), Col("type"), Fn("COUNT", "*")>>, "events",
            <<>>, <<"advertiser_id", "type">>, <<>>),
      Query(<<Col("minute"), SumBid>>, "events",
            <<Impressions, Where("day", "eq", "2024-01-01")>>,
            <<"minute">>, <<Order("minute", "asc")>>),
      Query(<<Col("country"), Fn("COUNT", "*")>>, "events",
            <<Purchases>>, <<"country">>, <<>>),
      Query(<<Col("country"), Col("publisher_id")>>, "events",
            <<Where("day", "eq", "2024-01-01")>>, <<>>,
            <<Order("country", "asc")>>),
      Query(<<Col("day"), SumBid>>, "users", <<Impressions>>, <<"day">>, <<>>) }

\* -------------------------------------------------------------- the engine
\* A query document is a dict, which keeps its keys in insertion order:
\* the order the document was written in. Query and Where build documents
\* written in the order of their arguments; WithKeys(d, keys) is the same
\* dict written in another key order.
WithKeys(d, keys) == ("keys" :> keys) @@ d

QueryKeys(d) ==
    IF "keys" \in DOMAIN d THEN d.keys
    ELSE <<"select", "from", "where", "group_by", "order_by">>

CondKeys(c) ==
    IF "keys" \in DOMAIN c THEN c.keys ELSE <<"col", "op", "val">>

\* The key names of query documents in the order sorted() puts them.
SortedNames ==
    <<"col", "from", "group_by", "op", "order_by", "select", "val", "where">>

\* The order json.dumps writes the keys of a dict in: sorted when
\* sort_keys, else the insertion order.
Emitted(keys, sort_keys) ==
    IF sort_keys THEN SelectSeq(SortedNames, LAMBDA k : InSeq(k, keys))
    ELSE keys

\* json.dumps(query, sort_keys=...): the text written, given by the order
\* the keys of the document and of each where condition are written in and
\* the values written (the items of select and order_by have their keys
\* written in one order).
json_dumps(d, sort_keys) ==
    [keys |-> Emitted(QueryKeys(d), sort_keys),
     select |-> d.select, from |-> d.from, group_by |-> d.group_by,
     order_by |-> d.order_by,
     where |-> [i \in 1..Len(d.where) |->
                  [keys |-> Emitted(CondKeys(d.where[i]), sort_keys),
                   col |-> d.where[i].col, op |-> d.where[i].op,
                   val |-> d.where[i].val]]]

\* _get_query_hash(query): the digest of json.dumps(query, sort_keys=True)
\* (no digest collision).
get_query_hash_unsorted(query) == json_dumps(query, FALSE)

get_query_hash(query) == json_dumps(query, TRUE)

\* DataFrame.clone() of the object at reference ref of heap h: a new object
\* with the same content.
CloneAlias(h, ref) == [heap |-> h, ref |-> ref]

Clone(h, ref) == [heap |-> Append(h, h[ref]), ref |-> Len(h) + 1]

\* A new object holding frame df.
Alloc(h, df) == [heap |-> Append(h, df), ref |-> Len(h) + 1]

\* DataFrame.drop_in_place(df.columns[0]): the caller's in-place change of
\* a frame it was given.
DropInPlace(df) ==
    Df(Tail(df.cols), [i \in 1..Len(df.rows) |-> Project(df.rows[i], Tail(df.cols))])

VARIABLES
    store,               \* the optimized directory: parts and aggs
    heap,                \* the DataFrame objects alive, by reference
    aggregate_cache,     \* QueryEngine._aggregate_cache: filename -> reference
    query_cache,         \* QueryEngine._query_cache: hash -> reference
    enable_query_cache,  \* QueryEngine._enable_query_cache
    calls,               \* the execute_query calls made, with what each returned
    query,               \* planner steps: the query they are applied to
    routed,              \* planner steps: what _try_precomputed returned
    scanned,             \* planner steps: what _execute_scan returned
    unpruned,            \* planner steps: what the scan without pruning returned
    opened,              \* planner steps: the partition files the scan opened
    cpu_count,           \* multiprocessing.cpu_count()
    workers_arg,         \* the num_workers argument of the preparer (0: None)
    preparer,            \* the preparer class constructed
    num_workers,         \* self.num_workers (0: not constructed)
    csv_files,           \* prepare: the CSV shards found, in name order
    task,                \* prepare: the state of each shard task of the pool
    temp,                \* prepare: temp/ (whether it exists, and its files)
    partitioned,         \* prepare: partitioned/, (type, day) -> rows
    aggregates,          \* prepare: aggregates/, file name -> frame
    stats,               \* prepare: stats.parquet (NoFile: not written)
    partition_files,     \* _merge_temp_partitions: (type, day) -> files
    pc,                  \* prepare: the step prepare() is at
    write_log,           \* prepare: every temp file written, by task
    consumed,            \* prepare: the temp files moved or merged
    earlier,             \* prepare: what the output root held when prepare() was called
    batch,               \* run_queries: the list of queries
    results,             \* run_queries: the summary records
    out_files,           \* run_queries: out_dir, i -> frame of q<i>.csv
    out_dir_before,      \* run_queries: out_dir as it was when the call began
    run_pc               \* run_queries: "loop" or "summary" ("idle": not called)

vars == <<store, heap, aggregate_cache, query_cache, enable_query_cache,
          calls, query, routed, scanned, unpruned, opened,
          cpu_count, workers_arg, preparer, num_workers,
          csv_files, task, temp, partitioned, aggregates, stats,
          partition_files, pc, write_log, consumed, earlier,
          batch, results, out_files, out_dir_before, run_pc>>

\* Three of the queries of EngineQueries: one a rollup answers whenever its
\* file exists, a grouped scan without order_by, and one whose rollup file
\* prepare_ultra_fast does not write.
FewQueries ==
    { Query(<<Col("day"), SumBid>>, "events", <<Impressions>>, <<"day">>, <<>>),
      Query(<<Col("country"), Fn("COUNT", "*")>>, "events",
            <<Purchases>>, <<"country">>, <<>>),
      Query(<<Col("minute"), SumBid>>, "events",
            <<Impressions, Where("day", "eq", "2024-01-01")>>,
            <<"minute">>, <<Order("minute", "asc")>>) }

\* The stores of one program and one input differ in the row order of
\* their rollup files only, and an engine that reads no rollup file outside
\* files takes the same steps on two of them that hold the same frames in
\* the files of files: one store of each such group.
SameFiles(s, t, files) ==
    \A f \in files \cap DOMAIN s.aggs : s.aggs[f] = t.aggs[f]

StoresReadThrough(files) ==
    UNION {LET made == Prepare(p, i)
           IN  {CHOOSE t \in made : SameFiles(s, t, files) : s \in made} :
              p \in Programs, i \in Inputs}

engineVars == <<heap, aggregate_cache, query_cache, enable_query_cache, calls>>

plannerVars == <<query, routed, scanned, unpruned, opened>>

workerVars == <<cpu_count, workers_arg, preparer, num_workers>>

ingestVars == <<csv_files, task, temp, partitioned, aggregates, stats,
                partition_files, pc, write_log, consumed, earlier>>

runVars == <<batch, results, out_files, out_dir_before, run_pc>>

\* A step not taken yet.
NotRun == [tag |-> "notrun", exc |-> "", cols |-> <<>>, rows |-> <<>>]

\* QueryEngine.__init__
EngineInit ==
    /\ heap = <<>>
    /\ aggregate_cache = <<>>
    /\ query_cache = <<>>
    /\ enable_query_cache = TRUE
    /\ calls = <<>>

PlannerIdle ==
    /\ routed = NotRun
    /\ scanned = NotRun
    /\ unpruned = NotRun
    /\ opened = <<>>

\* temp/ absent.
NoTemp == [exists |-> FALSE, files |-> <<>>]

\* stats.parquet absent.
NoStats == [written |-> FALSE, total_rows |-> 0, type_counts |-> <<>>,
            date_range |-> <<>>]

\* The rows of a file as a bag: how many times each row occurs.
RowBag(rows) ==
    [r \in Range(rows) |-> Cardinality({i \in 1..Len(rows) : rows[i] = r})]

\* The table a rollup file holds: its columns and its rows as a bag.
TableOf(df) == [cols |-> df.cols, rows |-> RowBag(df.rows)]

\* The content of an output root: the number of prepare() runs that made
\* it, the rows of its partitions, the tables of its rollups and its
\* statistics.
Root(run, parts, aggs, st) ==
    [run |-> run,
     partitioned |-> [k \in DOMAIN parts |-> RowBag(parts[k])],
     aggregates |-> [f \in DOMAIN aggs |-> TableOf(aggs[f])],
     stats |-> st]

\* No preparer constructed, no prepare() under way, no run_queries under way.
WorkersIdle ==
    /\ cpu_count = 0
    /\ workers_arg = 0
    /\ preparer = ""
    /\ num_workers = 0

IngestIdle ==
    /\ csv_files = <<>>
    /\ task = <<>>
    /\ temp = NoTemp
    /\ partitioned = <<>>
    /\ aggregates = <<>>
    /\ stats = NoStats
    /\ partition_files = <<>>
    /\ pc = "idle"
    /\ write_log = <<>>
    /\ consumed = {}
    /\ earlier = Root(0, <<>>, <<>>, NoStats)

RunIdle ==
    /\ batch = <<>>
    /\ results = <<>>
    /\ out_files = <<>>
    /\ out_dir_before = <<>>
    /\ run_pc = "idle"

\* _load_aggregate(filename) on the engine: [heap, cache, df, ref], df the
\* frame the caller receives (a clone of the cached object, at reference
\* ref) or the error raised.
LoadAggregateNoClone(h, cache, filename) ==
    IF filename \in DOMAIN cache
    THEN [heap |-> h, cache |-> cache, df |-> h[cache[filename]],
          ref |-> cache[filename]]
    ELSE IF filename \notin DOMAIN store.aggs
    THEN [heap |-> h, cache |-> cache, df |-> Raise("FileNotFoundError"),
          ref |-> 0]
    ELSE LET a == Alloc(h, store.aggs[filename])
         IN  [heap |-> a.heap, cache |-> (filename :> a.ref) @@ cache,
              df |-> a.heap[a.ref], ref |-> a.ref]

LoadAggregate(h, cache, filename) ==
    IF filename \in DOMAIN cache
    THEN LET c == Clone(h, cache[filename])
         IN  [heap |-> c.heap, cache |-> cache, df |-> c.heap[c.ref],
              ref |-> c.ref]
    ELSE IF filename \notin DOMAIN store.aggs
    THEN [heap |-> h, cache |-> cache, df |-> Raise("FileNotFoundError"),
          ref |-> 0]
    ELSE LET a == Alloc(h, store.aggs[filename])
             c == Clone(a.heap, a.ref)
         IN  [heap |-> c.heap, cache |-> (filename :> a.ref) @@ cache,
              df |-> c.heap[c.ref], ref |-> c.ref]

\* The record of one execute_query call: the query, the outcome (tag "df"
\* with the reference returned and the frame as it was returned, or tag
\* "raise"), whether it was a cache hit, and whether the caller has since
\* changed the returned frame in place.
Returned(q, ref, df, hit) ==
    [query |-> q, tag |-> "df", exc |-> "", ref |-> ref, value |-> df,
     hit |-> hit, mutated |-> FALSE]

Raised(q, exc) ==
    [query |-> q, tag |-> "raise", exc |-> exc, ref |-> 0, value |-> NotRun,
     hit |-> FALSE, mutated |-> FALSE]

\* execute_query(query): the result cache is enabled and holds the key of
\* the query.
CachedIgnoringSwitch(q) == get_query_hash(q) \in DOMAIN query_cache

Cached(q) ==
    enable_query_cache /\ get_query_hash(q) \in DOMAIN query_cache

\* execute_query(query), a cache hit: a clone of the cached frame. The
\* engine's part of the step (CacheHit), and the step as a call made on
\* the engine directly.
CacheHit(q) ==
    /\ Len(calls) < MaxCalls
    /\ Cached(q)
    /\ LET c == Clone(heap, query_cache[get_query_hash(q)])
       IN  /\ heap' = c.heap
           /\ calls' = Append(calls, Returned(q, c.ref, c.heap[c.ref], TRUE))
    /\ UNCHANGED <<store, aggregate_cache, query_cache, enable_query_cache>>
    /\ UNCHANGED plannerVars

ExecuteQueryHit(q) ==
    /\ CacheHit(q)
    /\ UNCHANGED <<workerVars, ingestVars, runVars>>

\* An execute_query call that found no cached result and has not returned.
PendingCall(q) ==
    [query |-> q, tag |-> "pending", exc |-> "", ref |-> 0, value |-> NotRun,
     hit |-> FALSE, mutated |-> FALSE]

\* The calls with the record of call i written: a new call when i is one
\* past the last.
Recorded(i, record) ==
    IF i = Len(calls) + 1 THEN Append(calls, record)
    ELSE [calls EXCEPT ![i] = record]

\* _query_cache after a call that computed result: the write of
\* execute_query is reached only when neither route raised, and is made
\* only with the cache enabled; ref is the clone stored.
QueryCacheAfterAnyOutcome(cache, key, result, ref) ==
    IF enable_query_cache THEN (key :> ref) @@ cache ELSE cache

QueryCacheAfterReplacing(cache, key, result, ref) ==
    IF result.tag = "raise" THEN cache
    ELSE IF enable_query_cache THEN (key :> ref)
    ELSE cache

QueryCacheAfter(cache, key, result, ref) ==
    IF result.tag = "raise" THEN cache
    ELSE IF enable_query_cache THEN (key :> ref) @@ cache
    ELSE cache

\* execute_query(query) past the cache lookup, as call i: the rollup route,
\* else the scan; the result is cached by clone and returned.
ComputeAndStore(q, i) ==
    LET shape == Shape(q)
        la == IF shape = "" THEN [heap |-> heap, cache |-> aggregate_cache,
                                  df |-> None, ref |-> 0]
              ELSE LoadAggregate(heap, aggregate_cache, shape)
        aggs == IF la.df.tag = "df" THEN (shape :> la.df) ELSE <<>>
        outcomes == IF shape = "" THEN ScanOutcomes(store.parts, q)
                    ELSE RouteOutcomes(aggs, q)
    IN  \E result \in outcomes :
          /\ aggregate_cache' = la.cache
          /\ IF result.tag = "raise"
             THEN /\ heap' = la.heap
                  /\ query_cache' =
                       QueryCacheAfter(query_cache, get_query_hash(q),
                                       result, 0)
                  /\ calls' = Recorded(i, Raised(q, result.exc))
             ELSE LET r == Alloc(la.heap, result)
                      c == Clone(r.heap, r.ref)
                  IN  /\ heap' = IF enable_query_cache THEN c.heap ELSE r.heap
                      /\ query_cache' =
                           QueryCacheAfter(query_cache, get_query_hash(q),
                                           result, c.ref)
                      /\ calls' = Recorded(i, Returned(q, r.ref, result, FALSE))

\* execute_query(query), a miss or the cache disabled. The engine's part of
\* the step (CacheMiss), and the step as a call made on the engine
\* directly.
CacheMiss(q) ==
    /\ Len(calls) < MaxCalls
    /\ ~Cached(q)
    /\ ComputeAndStore(q, Len(calls) + 1)
    /\ UNCHANGED <<store, enable_query_cache>>
    /\ UNCHANGED plannerVars

ExecuteQueryMiss(q) ==
    /\ CacheMiss(q)
    /\ UNCHANGED <<workerVars, ingestVars, runVars>>

\* The caller changes, in place, a frame execute_query returned to it.
MutateResult(i) ==
    /\ i \in 1..Len(calls)
    /\ calls[i].tag = "df"
    /\ ~calls[i].mutated
    /\ heap[calls[i].ref].cols # <<>>
    /\ heap' = [heap EXCEPT ![calls[i].ref] = DropInPlace(@)]
    /\ calls' = [calls EXCEPT ![i].mutated = TRUE]
    /\ UNCHANGED <<store, aggregate_cache, query_cache, enable_query_cache>>
    /\ UNCHANGED plannerVars
    /\ UNCHANGED <<workerVars, ingestVars, runVars>>

\* An engine constructed on one of stores.
InitOn(stores) ==
    /\ store \in stores
    /\ EngineInit
    /\ query = NotRun
    /\ PlannerIdle
    /\ WorkersIdle
    /\ IngestIdle
    /\ RunIdle

Init == InitOn(Stores)

\* The rollup files the routes of queries read.
FilesOf(queries) == {Shape(q) : q \in queries}

Next ==
    \/ \E q \in EngineQueries : ExecuteQueryHit(q)
    \/ \E q \in EngineQueries : ExecuteQueryMiss(q)
    \/ \E i \in 1..MaxCalls : MutateResult(i)

Spec == Init /\ [][Next]_vars

\* The rollup files an engine can be asked for.
RollupFiles ==
    {"daily_revenue", "country_revenue", "country_purchases",
     "publisher_day_country_revenue", "advertiser_type_counts",
     "minute_revenue"}

\* _load_aggregate(filename) called on the engine: the call is recorded
\* with the file asked for, the frame returned and whether it was served
\* from _aggregate_cache.
LoadAggregateCall(filename) ==
    /\ Len(calls) < MaxCalls
    /\ LET la == LoadAggregate(heap, aggregate_cache, filename)
       IN  /\ heap' = la.heap
           /\ aggregate_cache' = la.cache
           /\ calls' = Append(calls,
                  IF la.df.tag = "raise"
                  THEN Raised([file |-> filename], la.df.exc)
                  ELSE Returned([file |-> filename], la.ref, la.df,
                                filename \in DOMAIN aggregate_cache))
    /\ UNCHANGED <<store, query_cache, enable_query_cache>>
    /\ UNCHANGED <<plannerVars, workerVars, ingestVars, runVars>>

\* The files _load_aggregate is asked for: one written sorted, one written
\* in the order of its group_by, and one prepare_ultra_fast does not write.
AskedFiles == {"daily_revenue", "country_purchases", "minute_revenue"}

InitAggregateCache ==
    InitOn(StoresReadThrough(AskedFiles \cup FilesOf(FewQueries)))

NextAggregateCache ==
    \/ \E f \in AskedFiles : LoadAggregateCall(f)
    \/ \E q \in FewQueries : ExecuteQueryMiss(q)
    \/ \E i \in 1..MaxCalls : MutateResult(i)

SpecAggregateCache == InitAggregateCache /\ [][NextAggregateCache]_vars

\* Calls of execute_query on one query, and the caller's changes of what
\* they returned.
InitRepeat ==
    /\ query \in EngineQueries
    /\ store \in StoresReadThrough({Shape(query)})
    /\ EngineInit
    /\ PlannerIdle
    /\ WorkersIdle
    /\ IngestIdle
    /\ RunIdle

NextRepeat ==
    \/ ExecuteQueryHit(query)
    \/ ExecuteQueryMiss(query)
    \/ \E i \in 1..MaxCalls : MutateResult(i)

SpecRepeat == InitRepeat /\ [][NextRepeat]_vars

\* Calls of execute_query that follow one another, on queries that raise
\* on some stores and are answered on others.
NextCalls ==
    \/ \E q \in FewQueries : ExecuteQueryHit(q)
    \/ \E q \in FewQueries : ExecuteQueryMiss(q)

SpecCalls == Init /\ [][NextCalls]_vars

\* Two callers on one engine: execute_query as the steps another call can
\* come between: the cache lookup that misses (41-47); in _try_precomputed
\* (50) the choice of the route with the test of _aggregate_cache (519),
\* pl.read_parquet (521), the write of _aggregate_cache (521), the clone
\* of the cached frame (523) and the rest of the route; _execute_scan (54);
\* the write of _query_cache (57-58) and the return (61).

\* What a call under way holds: the step it is past, its result and a
\* reference. at is "read" (the file is not in _aggregate_cache), "write"
\* (the file is read, ref the frame read), "clone" (the file is in
\* _aggregate_cache), "route" (ref the clone _load_aggregate returned),
\* "scan" (the rollup route returned None), "computed" (result is bound,
\* ref the result) or "stored" (the cache write is done).
Held(at, result, ref) ==
    [tag |-> "held", at |-> at, result |-> result, ref |-> ref]

\* Call i is under way and past the step at.
HeldAt(i, at) ==
    /\ i \in 1..Len(calls)
    /\ calls[i].tag = "pending"
    /\ calls[i].value.tag = "held"
    /\ calls[i].value.at = at

\* Call i with result bound to a new object, or ended by the exception.
Bound(h, i, result) ==
    IF result.tag = "raise"
    THEN [heap |-> h,
          calls |-> Recorded(i, Raised(calls[i].query, result.exc))]
    ELSE LET r == Alloc(h, result)
         IN  [heap |-> r.heap,
              calls |-> [calls EXCEPT
                           ![i].value = Held("computed", result, r.ref)]]

BeginCall(q) ==
    /\ Len(calls) < MaxCalls
    /\ ~Cached(q)
    /\ calls' = Append(calls, PendingCall(q))
    /\ UNCHANGED <<store, heap, aggregate_cache, query_cache,
                   enable_query_cache>>
    /\ UNCHANGED <<plannerVars, workerVars, ingestVars, runVars>>

\* result = self._try_precomputed(query) up to the test of _load_aggregate:
\* no shape matches and the route returns None, or the route of the shape
\* asks for its file and `filename not in self._aggregate_cache` is tested.
RouteCall(i) ==
    /\ i \in 1..Len(calls)
    /\ calls[i].tag = "pending"
    /\ calls[i].value = NotRun
    /\ LET shape == Shape(calls[i].query)
           at == IF shape = "" THEN "scan"
                 ELSE IF shape \in DOMAIN aggregate_cache THEN "clone"
                 ELSE "read"
       IN  calls' = [calls EXCEPT ![i].value = Held(at, None, 0)]
    /\ UNCHANGED <<store, heap, aggregate_cache, query_cache,
                   enable_query_cache>>
    /\ UNCHANGED <<plannerVars, workerVars, ingestVars, runVars>>

\* pl.read_parquet(file_path): a new frame with the content of the file,
\* or FileNotFoundError, which ends the call.
ReadAggregate(i) ==
    /\ HeldAt(i, "read")
    /\ LET q == calls[i].query
           shape == Shape(q)
       IN  IF shape \in DOMAIN store.aggs
           THEN LET a == Alloc(heap, store.aggs[shape])
                IN  /\ heap' = a.heap
                    /\ calls' = [calls EXCEPT
                                   ![i].value = Held("write", None, a.ref)]
           ELSE \E result \in RouteOutcomes(<<>>, q) :
                    /\ heap' = Bound(heap, i, result).heap
                    /\ calls' = Bound(heap, i, result).calls
    /\ UNCHANGED <<store, aggregate_cache, query_cache, enable_query_cache>>
    /\ UNCHANGED <<plannerVars, workerVars, ingestVars, runVars>>

\* self._aggregate_cache[filename] = <the frame read>: the entry another
\* call wrote since the test is replaced.
WriteAggregate(i) ==
    /\ HeldAt(i, "write")
    /\ aggregate_cache' =
          [f \in DOMAIN aggregate_cache \cup {Shape(calls[i].query)} |->
              IF f = Shape(calls[i].query) THEN calls[i].value.ref
              ELSE aggregate_cache[f]]
    /\ calls' = [calls EXCEPT ![i].value = Held("clone", None, 0)]
    /\ UNCHANGED <<store, heap, query_cache, enable_query_cache>>
    /\ UNCHANGED <<plannerVars, workerVars, ingestVars, runVars>>

\* return self._aggregate_cache[filename].clone()
CloneAggregate(i) ==
    /\ HeldAt(i, "clone")
    /\ LET c == Clone(heap, aggregate_cache[Shape(calls[i].query)])
       IN  /\ heap' = c.heap
           /\ calls' = [calls EXCEPT ![i].value = Held("route", None, c.ref)]
    /\ UNCHANGED <<store, aggregate_cache, query_cache, enable_query_cache>>
    /\ UNCHANGED <<plannerVars, workerVars, ingestVars, runVars>>

\* The rest of the route, on the clone _load_aggregate returned.
FinishRoute(i) ==
    /\ HeldAt(i, "route")
    /\ LET q == calls[i].query
           aggs == Shape(q) :> heap[calls[i].value.ref]
       IN  \E result \in RouteOutcomes(aggs, q) :
              /\ heap' = Bound(heap, i, result).heap
              /\ calls' = Bound(heap, i, result).calls
    /\ UNCHANGED <<store, aggregate_cache, query_cache, enable_query_cache>>
    /\ UNCHANGED <<plannerVars, workerVars, ingestVars, runVars>>

\* result = self._execute_scan(query), when the rollup route returned None.
ScanCall(i) ==
    /\ HeldAt(i, "scan")
    /\ \E result \in ScanOutcomes(store.parts, calls[i].query) :
          /\ heap' = Bound(heap, i, result).heap
          /\ calls' = Bound(heap, i, result).calls
    /\ UNCHANGED <<store, aggregate_cache, query_cache, enable_query_cache>>
    /\ UNCHANGED <<plannerVars, workerVars, ingestVars, runVars>>

\* self._query_cache[cache_key] = result.clone(), with the cache enabled.
StoreCall(i) ==
    /\ HeldAt(i, "computed")
    /\ LET held == calls[i].value
           c == Clone(heap, held.ref)
       IN  /\ heap' = IF enable_query_cache THEN c.heap ELSE heap
           /\ query_cache' =
                 QueryCacheAfter(query_cache, get_query_hash(calls[i].query),
                                 held.result, c.ref)
           /\ calls' = [calls EXCEPT
                          ![i].value = Held("stored", held.result, held.ref)]
    /\ UNCHANGED <<store, aggregate_cache, enable_query_cache>>
    /\ UNCHANGED <<plannerVars, workerVars, ingestVars, runVars>>

\* return result, execution_time
ReturnCall(i) ==
    /\ HeldAt(i, "stored")
    /\ calls' = Recorded(i, Returned(calls[i].query, calls[i].value.ref,
                                     calls[i].value.result, FALSE))
    /\ UNCHANGED <<store, heap, aggregate_cache, query_cache,
                   enable_query_cache>>
    /\ UNCHANGED <<plannerVars, workerVars, ingestVars, runVars>>

NextInterleaved ==
    \/ \E q \in FewQueries : ExecuteQueryHit(q)
    \/ \E q \in FewQueries : BeginCall(q)
    \/ \E i \in 1..MaxCalls : RouteCall(i)
    \/ \E i \in 1..MaxCalls : ReadAggregate(i)
    \/ \E i \in 1..MaxCalls : WriteAggregate(i)
    \/ \E i \in 1..MaxCalls : CloneAggregate(i)
    \/ \E i \in 1..MaxCalls : FinishRoute(i)
    \/ \E i \in 1..MaxCalls : ScanCall(i)
    \/ \E i \in 1..MaxCalls : StoreCall(i)
    \/ \E i \in 1..MaxCalls : ReturnCall(i)

InitInterleaved == InitOn(StoresReadThrough(FilesOf(FewQueries)))

SpecInterleaved == InitInterleaved /\ [][NextInterleaved]_vars

\* The caller disables the result cache of the engine
\* (engine._enable_query_cache = False).
DisableQueryCache ==
    /\ enable_query_cache
    /\ enable_query_cache' = FALSE
    /\ UNCHANGED <<store, heap, aggregate_cache, query_cache, calls>>
    /\ UNCHANGED <<plannerVars, workerVars, ingestVars, runVars>>

NextCacheOff ==
    \/ \E q \in FewQueries : ExecuteQueryHit(q)
    \/ \E q \in FewQueries : ExecuteQueryMiss(q)
    \/ DisableQueryCache

SpecCacheOff == Init /\ [][NextCacheOff]_vars

\* ------------------------------------------------------ the planner's steps
\* _try_precomputed(query) on the rollup files of the store: the route of
\* the shape reads its file through _load_aggregate, which keeps the frame
\* in _aggregate_cache.
TryPrecomputed ==
    /\ routed = NotRun
    /\ LET shape == Shape(query)
           la == IF shape = "" THEN [heap |-> heap, cache |-> aggregate_cache,
                                     df |-> None, ref |-> 0]
                 ELSE LoadAggregate(heap, aggregate_cache, shape)
           aggs == IF la.df.tag = "df" THEN (shape :> la.df) ELSE <<>>
       IN  /\ routed' \in RouteOutcomes(aggs, query)
           /\ heap' = la.heap
           /\ aggregate_cache' = la.cache
    /\ UNCHANGED <<store, query, scanned, unpruned, opened>>
    /\ UNCHANGED <<query_cache, enable_query_cache, calls>>
    /\ UNCHANGED <<workerVars, ingestVars, runVars>>

\* _execute_scan(query) on the partition files of the store.
ExecuteScan ==
    /\ scanned = NotRun
    /\ scanned' \in ScanOutcomes(store.parts, query)
    /\ opened' = LET p == determine_partitions(query.where)
                 IN  OpenedFiles(store.parts, p.types, p.days)
    /\ UNCHANGED <<store, query, routed, unpruned>>
    /\ UNCHANGED engineVars
    /\ UNCHANGED <<workerVars, ingestVars, runVars>>

\* The scan of the query with every partition and every column loaded.
ScanEverything ==
    /\ unpruned = NotRun
    /\ unpruned' \in ScanEverythingOutcomes(store.parts, query)
    /\ UNCHANGED <<store, query, routed, scanned, opened>>
    /\ UNCHANGED engineVars
    /\ UNCHANGED <<workerVars, ingestVars, runVars>>

InitPlanner ==
    /\ query \in Queries
    /\ store \in StoresReadThrough({Shape(query)})
    /\ EngineInit
    /\ PlannerIdle
    /\ WorkersIdle
    /\ IngestIdle
    /\ RunIdle

NextPlanner ==
    \/ TryPrecomputed
    \/ ExecuteScan
    \/ ScanEverything

SpecPlanner == InitPlanner /\ [][NextPlanner]_vars

\* --------------------------------------------------- the shapes of queries
\* The queries the shape tests of _try_precomputed are run on: every select
\* list of at most MaxSelect of the entries below, every where list made of
\* the two type filters, every group_by list of at most MaxGroupBy columns.
MaxSelect == 3

MaxGroupBy == 2

ShapeColumns ==
    <<"day", "publisher_id", "country", "advertiser_id", "type", "minute">>

ShapeSelectItems ==
    [i \in 1..Len(ShapeColumns) |-> Col(ShapeColumns[i])]
    \o <<SumBid, Fn("AVG", "total_price"), Fn("COUNT", "*")>>

ShapeWhereItems == <<Impressions, Purchases>>

\* The entries of list at the positions of S, in list order.
Picked(list, S) == [i \in 1..Cardinality(S) |->
                      list[CHOOSE k \in S :
                              Cardinality({j \in S : j < k}) = i - 1]]

InitShapes ==
    /\ store \in Prepare("prepare_optimized", <<1, 4>>)
    /\ EngineInit
    /\ \E S \in SUBSET (1..Len(ShapeSelectItems)),
          W \in SUBSET (1..Len(ShapeWhereItems)),
          n \in 0..MaxGroupBy :
         /\ Cardinality(S) <= MaxSelect
         /\ \E g \in [1..n -> Range(ShapeColumns)] :
               query = Query(Picked(ShapeSelectItems, S), "events",
                             Picked(ShapeWhereItems, W), g, <<>>)
    /\ PlannerIdle
    /\ WorkersIdle
    /\ IngestIdle
    /\ RunIdle

NextShapes == TryPrecomputed

SpecShapes == InitShapes /\ [][NextShapes]_vars

\* ------------------------------------------------------ the parallel ingest
\* OptimizedDataPreparer.prepare and UltraFastDataPreparer.prepare: the
\* shard tasks of the pool, the merge of the worker-private files, the
\* rollups and the statistics.

\* The most CSV shards of an input, and the largest num_workers passed.
MaxShards == 2

MaxWorkers == 2

\* The contents a CSV shard can have: positions of Corpus, in file order.
ShardContents == {<<>>, <<1, 4>>, <<3, 1>>}

\* Path.stem of the i-th shard events_part_<i>.csv, as its pieces between
\* underscores.
Stem(i) == <<"events", "part", i>>

\* sorted(data_dir.glob("events_part_*.csv")) for an input of n shards.
CsvFiles ==
    UNION { [1..n -> {c : c \in ShardContents}] : n \in 0..MaxShards }

\* The rows process_csv_file reads from shard j.
ShardRows(files, j) == InputRows(files[j])

\* enumerate(csv_files): shard j (counted from 1) has index j - 1, and is
\* given worker id index % num_workers.
WorkerId(j, workers) == (j - 1) % workers

\* The path of a worker-private file,
\* temp/worker_<id>/type=<T>/day=<D>_<stem>.parquet: the worker id, the
\* directory name as its pieces around "=", and the file stem as its
\* pieces between underscores, the first one split around "=".
TempPathNoStem(worker_id, event_type, day, stem) ==
    [worker |-> worker_id, dir |-> <<"type", event_type>>,
     name |-> << <<"day", DayStr(day)>> >>]

TempPath(worker_id, event_type, day, stem) ==
    [worker |-> worker_id, dir |-> <<"type", event_type>>,
     name |-> << <<"day", DayStr(day)>> >> \o stem]

\* The (type, day) files process_csv_file writes for rows, in the order it
\* writes them: the four types in order, the days of each type sorted.
TaskFiles(rows) ==
    Flatten([t \in 1..Len(EventTypes) |->
        SelectSeq([d \in 1..3 |-> <<EventTypes[t], d>>],
                  LAMBDA k : \E i \in 1..Len(rows) :
                                rows[i].type = k[1] /\ rows[i].day = k[2])])

\* day_df: the rows of one type and day, in file order.
DayRows(rows, k) ==
    SelectSeq(rows, LAMBDA r : r.type = k[1] /\ r.day = k[2])

\* _merge_temp_partitions: the (type, day) key read from a temp path:
\* type_dir.name.split("=")[1], filename.split("_")[0].split("=")[1].
PartitionKey(path) == <<path.dir[2], path.name[1][2]>>

\* _merge_temp_partitions: partition_files, (type, day) -> the files found
\* under temp/worker_*/type=*/.
CollectWorkerZero(t) ==
    LET found == {p \in DOMAIN t.files : p.worker = 0}
    IN  [k \in {PartitionKey(p) : p \in found} |->
            {p \in found : PartitionKey(p) = k}]

CollectTempFiles(t) ==
    LET found == DOMAIN t.files
    IN  [k \in {PartitionKey(p) : p \in found} |->
            {p \in found : PartitionKey(p) = k}]

\* pl.concat(dfs).collect() of the files of one partition.
MergeFirst(frames) == frames[1]

MergeRows(frames) == Flatten(frames)

\* The orders in which a set of files can be listed.
Listings(files) ==
    {l \in [1..Cardinality(files) -> files] :
        \A i, j \in 1..Cardinality(files) : l[i] = l[j] => i = j}

\* The (type, day) keys a partition can have.
PartitionKeys == {<<t, DayStr(d)>> : t \in Range(EventTypes), d \in 1..3}

\* A function without one of its arguments.
Without(f, x) == [y \in DOMAIN f \ {x} |-> f[y]]

\* create_statistics: the rows of a type directory.
TypeCount(parts, type) ==
    LET files == PartitionFiles(parts, type)
    IN  Len(Flatten([i \in 1..Len(files) |-> parts[files[i]]]))

create_statistics(parts) ==
    LET present == Restrict(EventTypes,
                            {t \in Range(EventTypes) : TypeDirExists(parts, t)})
        files == PartitionFiles(parts, "impression")
    IN  [written |-> TRUE,
         total_rows |-> TypeCount(parts, "serve") + TypeCount(parts, "impression")
                        + TypeCount(parts, "click") + TypeCount(parts, "purchase"),
         type_counts |-> [i \in 1..Len(present) |->
                             <<present[i], TypeCount(parts, present[i])>>],
         date_range |-> IF files = <<>> THEN <<"unknown", "unknown">>
                        ELSE <<files[1][2], files[Len(files)][2]>>]

\* A partition left by an earlier prepare in the optimized directory.
StalePartitions == (<<"click", "2024-01-03">> :> <<Corpus[2]>>)

\* DataPreparer._create_statistics(df): the statistics of the frame (the
\* estimated size is left out); the types in name order, the days of all
\* rows.
TypesByName == <<"click", "impression", "purchase", "serve">>

DataPreparerStatistics(rows) ==
    LET present == SelectSeq(TypesByName,
                             LAMBDA t : \E i \in 1..Len(rows) : rows[i].type = t)
        days == {rows[i].day : i \in 1..Len(rows)}
    IN  [written |-> TRUE,
         total_rows |-> Len(rows),
         types |-> [i \in 1..Len(present) |->
                      <<present[i],
                        Len(SelectSeq(rows, LAMBDA r : r.type = present[i]))>>],
         date_range |->
             IF days = {} THEN [min |-> "None", max |-> "None"]
             ELSE [min |-> DayStr(CHOOSE d \in days : \A e \in days : d <= e),
                   max |-> DayStr(CHOOSE d \in days : \A e \in days : d >= e)],
         countries |-> Cardinality({rows[i].country : i \in 1..Len(rows)}),
         advertisers |-> Cardinality({rows[i].advertiser_id : i \in 1..Len(rows)}),
         publishers |-> Cardinality({rows[i].publisher_id : i \in 1..Len(rows)})]

\* shutil.rmtree of a directory of the output root: what it holds after.
RmtreeSkipped(content, empty) == content

Rmtree(content, empty) == empty

\* The shard tasks.
Pending == [st |-> "pending", written |-> 0]

Running(i) == task[i].st = "running"

SomeTaskDone == \E i \in 1..Len(task) : task[i].st = "done"

AllTasksDone == \A i \in 1..Len(task) : task[i].st = "done"

\* The preparers whose prepare() hands the shards to a pool.
ParallelPreparers == {"prepare_optimized", "prepare_ultra_fast"}

\* prepare() of OptimizedDataPreparer and of UltraFastDataPreparer: the old
\* optimized directory is removed, partitioned/ is created and the shards
\* are listed; without shards it raises FileNotFoundError, else the tasks
\* go to the pool.
PrepareStart ==
    /\ pc = "start"
    /\ preparer \in ParallelPreparers
    /\ partitioned' = Rmtree(partitioned, <<>>)
    /\ aggregates' = Rmtree(aggregates, <<>>)
    /\ stats' = Rmtree(stats, NoStats)
    /\ temp' = Rmtree(temp, NoTemp)
    /\ IF csv_files = <<>>
       THEN /\ pc' = "aborted"
            /\ task' = task
       ELSE /\ pc' = "pool"
            /\ task' = [i \in 1..Len(csv_files) |-> Pending]
    /\ UNCHANGED <<csv_files, partition_files, write_log, consumed>>
    /\ UNCHANGED <<store, engineVars, plannerVars, workerVars, runVars, earlier>>

\* A pool process takes shard task i: process_csv_file creates
\* temp/worker_<id>/ and reads the shard.
StartTask(i) ==
    /\ pc = "pool"
    /\ i \in 1..Len(task)
    /\ task[i].st = "pending"
    /\ Cardinality({j \in 1..Len(task) : Running(j)}) < num_workers
    /\ task' = [task EXCEPT ![i].st = "running"]
    /\ temp' = [temp EXCEPT !.exists = TRUE]
    /\ UNCHANGED <<csv_files, partitioned, aggregates, stats, partition_files,
                   pc, write_log, consumed>>
    /\ UNCHANGED <<store, engineVars, plannerVars, workerVars, runVars, earlier>>

\* The log of the temp files written with one more write: the writes are
\* kept by task, those of a task in the order it made them.
Logged(log, write) ==
    SelectSeq(log, LAMBDA w : w.task <= write.task) \o <<write>>
    \o SelectSeq(log, LAMBDA w : w.task > write.task)

\* process_csv_file of shard i writes its next (type, day) file.
WriteTempFile(i) ==
    /\ pc = "pool"
    /\ i \in 1..Len(task)
    /\ Running(i)
    /\ LET rows == ShardRows(csv_files, i)
           todo == TaskFiles(rows)
       IN  /\ task[i].written < Len(todo)
           /\ LET k == todo[task[i].written + 1]
                  path == TempPath(WorkerId(i, num_workers), k[1], k[2],
                                   Stem(i - 1))
              IN  /\ temp' = [temp EXCEPT
                                !.files = (path :> DayRows(rows, k)) @@ @]
                  /\ write_log' = Logged(write_log,
                                         [task |-> i, path |-> path,
                                          rows |-> DayRows(rows, k)])
           /\ task' = [task EXCEPT ![i].written = @ + 1]
    /\ UNCHANGED <<csv_files, partitioned, aggregates, stats, partition_files,
                   pc, consumed>>
    /\ UNCHANGED <<store, engineVars, plannerVars, workerVars, runVars, earlier>>

\* process_csv_file of shard i returns.
FinishTask(i) ==
    /\ pc = "pool"
    /\ i \in 1..Len(task)
    /\ Running(i)
    /\ task[i].written = Len(TaskFiles(ShardRows(csv_files, i)))
    /\ task' = [task EXCEPT ![i].st = "done"]
    /\ UNCHANGED <<csv_files, temp, partitioned, aggregates, stats,
                   partition_files, pc, write_log, consumed>>
    /\ UNCHANGED <<store, engineVars, plannerVars, workerVars, runVars, earlier>>

\* process_csv_file of shard i raises (a parse, schema or I/O failure).
FailTask(i) ==
    /\ pc = "pool"
    /\ i \in 1..Len(task)
    /\ Running(i)
    /\ task' = [task EXCEPT ![i].st = "failed"]
    /\ UNCHANGED <<csv_files, temp, partitioned, aggregates, stats,
                   partition_files, pc, write_log, consumed>>
    /\ UNCHANGED <<store, engineVars, plannerVars, workerVars, runVars, earlier>>

\* pool.map raises the error of a failed task in prepare(), which has no
\* handler: the result of map is ready only when every task has ended
\* (each shard is a chunk of its own here), so the other shards are still
\* processed; prepare() ends there and the pool is terminated.
PoolMapRaises ==
    /\ pc = "pool"
    /\ \A i \in 1..Len(task) : task[i].st \in {"done", "failed"}
    /\ \E i \in 1..Len(task) : task[i].st = "failed"
    /\ pc' = "aborted"
    /\ UNCHANGED <<csv_files, task, temp, partitioned, aggregates, stats,
                   partition_files, write_log, consumed>>
    /\ UNCHANGED <<store, engineVars, plannerVars, workerVars, runVars, earlier>>

\* pool.map returns the results of all tasks; _merge_temp_partitions lists
\* the temp files by partition.
PoolMapReturns ==
    /\ pc = "pool"
    /\ AllTasksDone
    /\ IF temp.exists
       THEN /\ pc' = "merge"
            /\ partition_files' = CollectTempFiles(temp)
       ELSE /\ pc' = "aggregates"
            /\ partition_files' = partition_files
    /\ UNCHANGED <<csv_files, task, temp, partitioned, aggregates, stats,
                   write_log, consumed>>
    /\ UNCHANGED <<store, engineVars, plannerVars, workerVars, runVars, earlier>>

\* _merge_temp_partitions, one partition: a single file is moved to
\* partitioned/type=<T>/day=<D>.parquet, several are concatenated into it.
MergePartition(k) ==
    /\ pc = "merge"
    /\ k \in DOMAIN partition_files
    /\ \E file_list \in Listings(partition_files[k]) :
         IF Len(file_list) = 1
         THEN /\ partitioned' = (k :> temp.files[file_list[1]]) @@ partitioned
              /\ temp' = [temp EXCEPT !.files = Without(@, file_list[1])]
         ELSE /\ partitioned' =
                   (k :> MergeRows([i \in 1..Len(file_list) |->
                                       temp.files[file_list[i]]]))
                   @@ partitioned
              /\ temp' = temp
    /\ consumed' = consumed \cup partition_files[k]
    /\ partition_files' = Without(partition_files, k)
    /\ UNCHANGED <<csv_files, task, aggregates, stats, pc, write_log>>
    /\ UNCHANGED <<store, engineVars, plannerVars, workerVars, runVars, earlier>>

\* _merge_temp_partitions, the end: shutil.rmtree(temp_dir).
RemoveTemp ==
    /\ pc = "merge"
    /\ DOMAIN partition_files = {}
    /\ temp' = NoTemp
    /\ pc' = "aggregates"
    /\ UNCHANGED <<csv_files, task, partitioned, aggregates, stats,
                   partition_files, write_log, consumed>>
    /\ UNCHANGED <<store, engineVars, plannerVars, workerVars, runVars, earlier>>

\* compute_aggregates_parallel(self.optimized_dir) in
\* OptimizedDataPreparer.prepare, compute_minimal_aggregates in
\* UltraFastDataPreparer.prepare.
ComputeAggregates ==
    /\ pc = "aggregates"
    /\ \E written \in IF preparer = "prepare_ultra_fast"
                      THEN compute_minimal_aggregates(partitioned)
                      ELSE compute_aggregates_parallel(partitioned) :
          aggregates' = written @@ aggregates
    /\ pc' = "stats"
    /\ UNCHANGED <<csv_files, task, temp, partitioned, stats, partition_files,
                   write_log, consumed>>
    /\ UNCHANGED <<store, engineVars, plannerVars, workerVars, runVars, earlier>>

\* create_statistics, and prepare() returns.
CreateStatistics ==
    /\ pc = "stats"
    /\ stats' = create_statistics(partitioned)
    /\ pc' = "done"
    /\ UNCHANGED <<csv_files, task, temp, partitioned, aggregates,
                   partition_files, write_log, consumed>>
    /\ UNCHANGED <<store, engineVars, plannerVars, workerVars, runVars, earlier>>

\* DataPreparer.prepare(), the single-process program: the old optimized
\* directory is removed; without shards _load_and_transform raises
\* FileNotFoundError, else the shards are concatenated in name order and
\* the partitions, the rollups and the statistics are written from the
\* frame.
PrepareSerial ==
    /\ pc = "start"
    /\ preparer = "prepare"
    /\ temp' = Rmtree(temp, NoTemp)
    /\ IF csv_files = <<>>
       THEN /\ pc' = "aborted"
            /\ partitioned' = Rmtree(partitioned, <<>>)
            /\ aggregates' = Rmtree(aggregates, <<>>)
            /\ stats' = Rmtree(stats, NoStats)
       ELSE LET df == Flatten([j \in 1..Len(csv_files) |->
                                  ShardRows(csv_files, j)])
            IN  /\ pc' = "done"
                /\ partitioned' =
                      CreatePartitions(df) @@ Rmtree(partitioned, <<>>)
                /\ \E written \in create_aggregations(df) :
                      aggregates' = written @@ Rmtree(aggregates, <<>>)
                /\ stats' = DataPreparerStatistics(df)
    /\ UNCHANGED <<csv_files, task, partition_files, write_log, consumed>>
    /\ UNCHANGED <<store, engineVars, plannerVars, workerVars, runVars, earlier>>

\* prepare() is called again on the same input directory and the same
\* output root, as the first run left it.
PrepareAgain ==
    /\ pc = "done"
    /\ earlier.run = 0
    /\ earlier' = Root(1, partitioned, aggregates, stats)
    /\ pc' = "start"
    /\ task' = <<>>
    /\ write_log' = <<>>
    /\ consumed' = {}
    /\ UNCHANGED <<csv_files, temp, partitioned, aggregates, stats,
                   partition_files>>
    /\ UNCHANGED <<store, engineVars, plannerVars, workerVars, runVars>>

\* A preparer before prepare() on an input directory: an
\* OptimizedDataPreparer or an UltraFastDataPreparer constructed with
\* num_workers passed (cpu_count is not consulted), or a DataPreparer; the
\* optimized directory was left by an earlier run on another input.
InitIngest ==
    /\ store \in Prepare("prepare_optimized", <<>>)
    /\ EngineInit
    /\ query = NotRun
    /\ PlannerIdle
    /\ RunIdle
    /\ cpu_count = 0
    /\ \/ /\ preparer \in ParallelPreparers
          /\ workers_arg \in 1..MaxWorkers
       \/ /\ preparer = "prepare"
          /\ workers_arg = 0
    /\ num_workers = workers_arg
    /\ csv_files \in CsvFiles
    /\ task = <<>>
    /\ temp = NoTemp
    /\ partitioned = StalePartitions
    /\ aggregates \in compute_aggregates_parallel(StalePartitions)
    /\ stats = create_statistics(StalePartitions)
    /\ partition_files = <<>>
    /\ pc = "start"
    /\ write_log = <<>>
    /\ consumed = {}
    /\ earlier = Root(0, partitioned, aggregates, stats)

NextIngest ==
    \/ PrepareStart
    \/ PrepareSerial
    \/ PrepareAgain
    \/ \E i \in 1..MaxShards : StartTask(i)
    \/ \E i \in 1..MaxShards : WriteTempFile(i)
    \/ \E i \in 1..MaxShards : FinishTask(i)
    \/ \E i \in 1..MaxShards : FailTask(i)
    \/ PoolMapRaises
    \/ PoolMapReturns
    \/ \E k \in PartitionKeys : MergePartition(k)
    \/ RemoveTemp
    \/ ComputeAggregates
    \/ CreateStatistics

SpecIngest == InitIngest /\ [][NextIngest]_vars

\* ------------------------------------------------- the default worker count
\* The most CPU cores of a machine.
MaxCores == 16

Min(a, b) == IF a <= b THEN a ELSE b

Max(a, b) == IF a >= b THEN a ELSE b

\* int(cores * 0.75): the product truncated to an integer.
IntThreeQuarters(cores) == (3 * cores) \div 4

\* The num_workers OptimizedDataPreparer.__init__ takes when none is
\* passed: min(6, max(1, int(cpu_count() * 0.75))).
OptimizedWorkersCeil(cores) == Min(6, Max(1, (3 * cores + 3) \div 4))

OptimizedWorkers(cores) == Min(6, Max(1, IntThreeQuarters(cores)))

\* The num_workers UltraFastDataPreparer.__init__ takes when none is
\* passed: min(10, max(1, cpu_count())).
UltraFastWorkers(cores) == Min(10, Max(1, cores))

\* OptimizedDataPreparer(data_dir, optimized_dir, num_workers).
ConstructOptimized ==
    /\ preparer = ""
    /\ preparer' = "prepare_optimized"
    /\ num_workers' = IF workers_arg = 0 THEN OptimizedWorkers(cpu_count)
                      ELSE workers_arg
    /\ UNCHANGED <<cpu_count, workers_arg>>
    /\ UNCHANGED <<store, engineVars, plannerVars, ingestVars, runVars>>

\* UltraFastDataPreparer(data_dir, optimized_dir, num_workers).
ConstructUltraFast ==
    /\ preparer = ""
    /\ preparer' = "prepare_ultra_fast"
    /\ num_workers' = IF workers_arg = 0 THEN UltraFastWorkers(cpu_count)
                      ELSE workers_arg
    /\ UNCHANGED <<cpu_count, workers_arg>>
    /\ UNCHANGED <<store, engineVars, plannerVars, ingestVars, runVars>>

\* A machine of 1 to MaxCores cores, and a preparer about to be constructed
\* with num_workers passed or not (0: None).
InitWorkers ==
    /\ store \in Prepare("prepare_optimized", <<>>)
    /\ EngineInit
    /\ query = NotRun
    /\ PlannerIdle
    /\ IngestIdle
    /\ RunIdle
    /\ cpu_count \in 1..MaxCores
    /\ workers_arg \in 0..MaxWorkers
    /\ preparer = ""
    /\ num_workers = 0

NextWorkers ==
    \/ ConstructOptimized
    \/ ConstructUltraFast

SpecWorkers == InitWorkers /\ [][NextWorkers]_vars

\* ------------------------------------------------------ the cache key
\* A scan query, written in four more ways: its keys in another order, the
\* keys of its where condition in another order, another value, and a list
\* in another order.
KeyDocument ==
    Query(<<Col("country"), Col("publisher_id")>>, "events",
          <<Where("day", "eq", "2024-01-01")>>, <<>>,
          <<Order("country", "asc")>>)

KeyDocuments ==
    { KeyDocument,
      WithKeys(KeyDocument, <<"where", "order_by", "from", "select", "group_by">>),
      [KeyDocument EXCEPT !.where[1] = WithKeys(@, <<"val", "col", "op">>)],
      [KeyDocument EXCEPT !.where[1].val = "2024-01-02"],
      [KeyDocument EXCEPT !.select = <<Col("publisher_id"), Col("country")>>],
      Query(<<Col("day"), SumBid>>, "events", <<Impressions>>, <<"day">>, <<>>),
      WithKeys(Query(<<Col("day"), SumBid>>, "events", <<Impressions>>,
                     <<"day">>, <<>>),
               <<"from", "select", "group_by", "where", "order_by">>) }

NextKeys ==
    \/ \E q \in KeyDocuments : ExecuteQueryHit(q)
    \/ \E q \in KeyDocuments : ExecuteQueryMiss(q)

InitKeys == InitOn(StoresReadThrough(FilesOf(KeyDocuments)))

SpecKeys == InitKeys /\ [][NextKeys]_vars

\* ---------------------------------------------------------- run_queries
\* The queries of a batch: a rollup query, the minute query and a scan.
BatchQueries ==
    { Query(<<Col("day"), SumBid>>, "events", <<Impressions>>, <<"day">>, <<>>),
      Query(<<Col("minute"), SumBid>>, "events",
            <<Impressions, Where("day", "eq", "2024-01-01")>>,
            <<"minute">>, <<Order("minute", "asc")>>),
      Query(<<Col("country"), Fn("COUNT", "*")>>, "events",
            <<Purchases>>, <<"country">>, <<>>) }

\* The batches run_queries is given: up to MaxCalls queries.
Batches ==
    UNION {[1..n -> BatchQueries] : n \in 1..MaxCalls}

\* The content of the CSV file written for a result frame: the header
\* (result_df.columns) and result_df.rows(), each row a tuple in column order.
WriteCsv(df) ==
    [header |-> df.cols,
     rows |-> [i \in 1..Len(df.rows) |->
                 [j \in 1..Len(df.cols) |-> df.rows[i][df.cols[j]]]]]

\* The index in the name q<i>.csv of the file of query i of the batch.
OutNameNextUnused(i) == Cardinality(DOMAIN out_files) + 1

OutName(i) == i

\* The summary records appended for a query that succeeded and for one
\* that raised.
Success(i, df) == [query |-> i, rows |-> Len(df.rows), error |-> ""]

Failure(i, e) == [query |-> i, rows |-> 0, error |-> e]

\* One iteration of the loop of run_queries: execute_query on query i of
\* the batch; its frame is written to q<i>.csv and recorded, or the
\* exception it raised is caught and recorded.
RunQuery ==
    /\ run_pc = "loop"
    /\ Len(results) < Len(batch)
    /\ LET i == Len(results) + 1
       IN  /\ CacheHit(batch[i]) \/ CacheMiss(batch[i])
           /\ LET call == calls'[Len(calls')]
              IN  IF call.tag = "df"
                  THEN /\ out_files' = (OutName(i) :> WriteCsv(call.value))
                                          @@ out_files
                       /\ results' = Append(results, Success(i, call.value))
                  ELSE /\ out_files' = out_files
                       /\ results' = Append(results, Failure(i, call.exc))
    /\ UNCHANGED <<batch, out_dir_before, run_pc>>
    /\ UNCHANGED <<workerVars, ingestVars>>

\* The loop is over: the summary is printed.
PrintSummary ==
    /\ run_pc = "loop"
    /\ Len(results) = Len(batch)
    /\ run_pc' = "summary"
    /\ UNCHANGED <<batch, results, out_files, out_dir_before>>
    /\ UNCHANGED <<store, engineVars, plannerVars, workerVars, ingestVars>>

\* run_queries(queries, optimized_dir, out_dir) called again with the
\* out_dir of a call that has returned: out_dir.mkdir(parents=True,
\* exist_ok=True) keeps the directory and the files in it, the engine is a
\* new one, results = []. (A call that began on an empty out_dir is
\* followed by another; one that began on files of an earlier call is the
\* last.)
RunQueriesAgain ==
    /\ run_pc = "summary"
    /\ out_dir_before = <<>>
    /\ \E queries \in Batches : batch' = queries
    /\ heap' = <<>>
    /\ aggregate_cache' = <<>>
    /\ query_cache' = <<>>
    /\ enable_query_cache' = TRUE
    /\ calls' = <<>>
    /\ results' = <<>>
    /\ out_dir_before' = out_files
    /\ run_pc' = "loop"
    /\ UNCHANGED <<store, out_files>>
    /\ UNCHANGED <<plannerVars, workerVars, ingestVars>>

\* run_queries(queries, optimized_dir, out_dir) on an empty out_dir: a new
\* engine on the store, no record yet.
InitRun ==
    /\ store \in StoresReadThrough(FilesOf(BatchQueries))
    /\ EngineInit
    /\ query = NotRun
    /\ PlannerIdle
    /\ WorkersIdle
    /\ IngestIdle
    /\ batch \in Batches
    /\ results = <<>>
    /\ out_files = <<>>
    /\ out_dir_before = <<>>
    /\ run_pc = "loop"

NextRun ==
    \/ RunQuery
    \/ PrintSummary
    \/ RunQueriesAgain

SpecRun == InitRun /\ [][NextRun]_vars


\* ------------------------------------------------------ comparing results
\* The number of rows of df equal to r.
Occurrences(df, r) == Cardinality({i \in 1..Len(df.rows) : df.rows[i] = r})

\* The same rows as a multiset (for frames with the same columns).
SameRows(a, b) ==
    /\ Len(a.rows) = Len(b.rows)
    /\ \A r \in Range(a.rows) : Occurrences(a, r) = Occurrences(b, r)

\* The cells of column col, in row order.
Column(df, col) == [i \in 1..Len(df.rows) |-> df.rows[i][col]]

\* Two frames are the same table for a query with this order_by: the same
\* columns in the same order, the same rows as a multiset and, when
\* order_by sorts the frame, the same sequence of sort keys (the order of
\* rows with equal keys is left open by sort).
SameTable(a, b, order_by) ==
    /\ a.tag = "df"
    /\ b.tag = "df"
    /\ a.cols = b.cols
    /\ SameRows(a, b)
    /\ LET k == LastSort(a.cols, order_by)
       IN  k > 0 =>
             Column(a, SortColumn(a.cols, order_by[k].col))
               = Column(b, SortColumn(a.cols, order_by[k].col))

\* The calls of one query that returned a frame, in call order.
Pairs == {p \in (1..Len(calls)) \X (1..Len(calls)) :
             /\ p[1] < p[2]
             /\ calls[p[1]].query = calls[p[2]].query
             /\ calls[p[1]].tag = "df"
             /\ calls[p[2]].tag = "df"}

\* ------------------------------------------------------------------ claims
\* C1: with the cache enabled, two execute_query calls of one query return
\* frames that are equal row for row and are independent objects: they are
\* different objects, different from the cached one, and after the caller
\* has changed the first in place the second and the cache entry still hold
\* the frame that was returned.
C1_CacheTransparency ==
    enable_query_cache =>
      \A p \in Pairs :
        LET first == calls[p[1]]
            second == calls[p[2]]
            entry == query_cache[get_query_hash(first.query)]
        IN  /\ second.value = first.value
            /\ first.ref # second.ref
            /\ entry \notin {first.ref, second.ref}
            /\ heap[entry] = first.value
            /\ ~second.mutated => heap[second.ref] = first.value
            /\ ~first.mutated => heap[first.ref] = first.value

\* C1 witness: a query answered twice with a frame of two rows, the second
\* time from the cache, after the caller changed the first frame in place.
C1_Witness ==
    \E p \in Pairs :
        /\ calls[p[2]].hit
        /\ calls[p[1]].mutated
        /\ ~calls[p[2]].mutated
        /\ Len(calls[p[1]].value.rows) >= 2
        /\ heap[calls[p[1]].ref] # calls[p[1]].value

\* C2: for a query that matches a rollup shape, the frame the rollup route
\* returns is the same table as the frame the scan returns.
C2_RoutingEquivalence ==
    (/\ Shape(query) # ""
     /\ routed # NotRun
     /\ scanned # NotRun
     /\ (routed.tag = "df" \/ scanned.tag = "df"))
    => SameTable(routed, scanned, query.order_by)

\* A where predicate outside the filters the PublisherRevenue shape allows.
OutsidePublisher(w) ==
    /\ ~(w.col = "type" /\ w.op = "eq")
    /\ ~(w.col = "country" /\ w.op = "eq")
    /\ ~(w.col = "day" /\ w.op \in {"eq", "between"})

\* A where predicate outside the filters the MinuteRevenue shape allows.
OutsideMinute(w) ==
    /\ ~(w.col = "type" /\ w.op = "eq")
    /\ ~(w.col = "day" /\ w.op = "eq")

\* The query has the group-by, select members and type filter of the
\* PublisherRevenue or MinuteRevenue shape and one more filter that the
\* shape does not allow.
HasExtraFilter(q) ==
    \/ /\ matches_publisher_day_revenue(q.select, q.where, q.group_by)
       /\ \E i \in 1..Len(q.where) : OutsidePublisher(q.where[i])
    \/ /\ matches_minute_revenue(q.select, q.where, q.group_by)
       /\ \E i \in 1..Len(q.where) : OutsideMinute(q.where[i])

\* C3: a PublisherRevenue or MinuteRevenue query with a filter outside the
\* shape is not answered from a rollup: _try_precomputed returns None.
C3_ExtraFilterForcesScan ==
    (routed # NotRun /\ HasExtraFilter(query)) => routed.tag = "None"

\* C4: for a query that runs through the scan, the pruned scan and the scan
\* of every partition with every column give the same result: the same
\* table, or the same error.
C4_PruningSound ==
    (Shape(query) = "" /\ scanned # NotRun /\ unpruned # NotRun) =>
       \/ SameTable(scanned, unpruned, query.order_by)
       \/ scanned.tag = "raise" /\ unpruned = scanned

\* C5: when the where clause has `day eq d`, the scan opens no partition
\* file of another day.
C5_DayPruning ==
    LET p == determine_partitions(query.where)
    IN  (scanned # NotRun /\ ~p.days.none) =>
          \A i \in 1..Len(opened) : InSeq(opened[i][2], p.days.list)

\* C6: on a rollup hit with an order_by that names a result column, the
\* rows returned are sorted on that column in the direction asked.
C6_RollupOrderBy ==
    (Shape(query) # "" /\ routed.tag = "df") =>
       LET k == LastSort(routed.cols, query.order_by)
       IN  k > 0 => IsSorted(routed,
                             SortColumn(routed.cols, query.order_by[k].col),
                             Descending(query.order_by[k]))

\* C7: on a rollup hit the frame has exactly the columns of the select
\* list, in its order, aggregates named "<func>(<col>)" in lower case.
C7_RollupColumns ==
    (Shape(query) # "" /\ routed.tag = "df") =>
       routed.cols = SelectCols(query.select)

\* C8: on a store built by prepare_ultra_fast, a PublisherRevenue or
\* MinuteRevenue query does not fail on the absent rollup file and returns
\* what the scan of the partitions returns.
C8_UltraFastFallsBackToScan ==
    \A i \in 1..Len(calls) :
        (/\ store.program = "prepare_ultra_fast"
         /\ Shape(calls[i].query) \in {"publisher_day_country_revenue",
                                       "minute_revenue"})
        => /\ calls[i].exc # "FileNotFoundError"
           /\ (calls[i].tag = "df" /\ ~calls[i].hit) =>
                 calls[i].value \in ScanOutcomes(store.parts, calls[i].query)

\* Every type directory the where clause of q selects is missing.
TypeDirsMissing(q) ==
    LET types == determine_partitions(q.where).types
    IN  \A i \in 1..Len(types) : ~TypeDirExists(store.parts, types[i])

\* C9: when every type directory a query needs is missing, execute_query
\* returns a frame without rows and raises nothing.
C9_MissingTypeDirIsEmpty ==
    \A i \in 1..Len(calls) :
        TypeDirsMissing(calls[i].query) =>
           calls[i].tag = "df" /\ calls[i].value.rows = <<>>

\* C10: a query whose `from` is not `events` is rejected: execute_query
\* raises, returns no frame and stores nothing in the result cache.
C10_FromIsValidated ==
    \A i \in 1..Len(calls) :
        calls[i].query.from # "events" =>
           /\ calls[i].tag = "raise"
           /\ get_query_hash(calls[i].query) \notin DOMAIN query_cache

\* The number of times row c of Corpus occurs in the input shards.
InputCopies(c) ==
    Cardinality({p \in (1..Len(csv_files)) \X (1..Len(Corpus)) :
                    /\ p[2] <= Len(csv_files[p[1]])
                    /\ csv_files[p[1]][p[2]] = c})

\* The number of times row c of Corpus occurs in the final partition k.
StoredCopies(k, c) ==
    Cardinality({i \in 1..Len(partitioned[k]) : partitioned[k][i] = Corpus[c]})

\* C11: once the merge of a parallel ingest is over, partitioned/ has one
\* partition for every (type, day) of the input rows and no other, and
\* each partition holds every input row of its type and day as many times
\* as the shards hold it, and no other row.
C11_PartitionExactness ==
    pc \in {"aggregates", "stats", "done"} =>
        /\ DOMAIN partitioned =
              {<<Corpus[c].type, DayStr(Corpus[c].day)>> :
                  c \in {x \in 1..Len(Corpus) : InputCopies(x) > 0}}
        /\ \A k \in DOMAIN partitioned :
              /\ \A c \in 1..Len(Corpus) :
                    StoredCopies(k, c) =
                      IF <<Corpus[c].type, DayStr(Corpus[c].day)>> = k
                      THEN InputCopies(c) ELSE 0
              /\ \A i \in 1..Len(partitioned[k]) :
                    \E c \in 1..Len(Corpus) : partitioned[k][i] = Corpus[c]

\* C11 witness: an ingest of two shards has ended, and a partition holds
\* rows that came from both shards (two copies of one row).
C11_Witness ==
    /\ pc = "done"
    /\ Len(csv_files) = 2
    /\ \E k \in DOMAIN partitioned : StoredCopies(k, 1) = 2
    /\ Cardinality(DOMAIN partitioned) = 3

\* The temp files written so far.
WrittenPaths == {write_log[e].path : e \in 1..Len(write_log)}

\* C13: a worker-private temp file is gone from temp/ only once it has
\* been moved to, or merged into, a final partition; and when prepare()
\* has returned, temp/ does not exist.
C13_TempRemoved ==
    /\ \A p \in WrittenPaths : p \in DOMAIN temp.files \/ p \in consumed
    /\ pc = "done" => ~temp.exists /\ WrittenPaths \subseteq consumed

\* C13 witness: prepare() has returned after two workers wrote four temp
\* files, two of them moved and two merged.
C13_Witness ==
    /\ pc = "done"
    /\ ~temp.exists
    /\ num_workers = 2
    /\ Cardinality(consumed) = 4
    /\ \E p, q \in consumed : p.worker # q.worker

\* C14: the merge runs only when every shard task has completed, the
\* rollups are written only when the merge is over (temp/ removed), the
\* stats file only after the rollups; and once a shard task has failed
\* nothing is merged, no rollup and no stats file is written, and
\* prepare() ends by raising (in every state of a parallel ingest after
\* its clean start).
C14_StepOrder ==
    (preparer \in ParallelPreparers /\ pc # "start") =>
        /\ pc \in {"merge", "aggregates", "stats", "done"} =>
              \A i \in 1..Len(task) : task[i].st = "done"
        /\ (pc = "pool" \/ pc = "aborted") =>
              /\ partitioned = <<>>
              /\ partition_files = <<>>
        /\ (pc \in {"stats", "done"} \/ aggregates # <<>>) =>
              /\ pc \in {"stats", "done"}
              /\ ~temp.exists
              /\ partition_files = <<>>
        /\ pc \in {"start", "pool", "aborted", "merge", "aggregates"} =>
              aggregates = <<>>
        /\ stats.written <=> pc = "done"
        /\ (\E i \in 1..Len(task) : task[i].st = "failed") =>
              /\ pc \in {"pool", "aborted"}
              /\ aggregates = <<>>
              /\ ~stats.written
        /\ pc = "aborted" =>
              \/ csv_files = <<>>
              \/ \E i \in 1..Len(task) : task[i].st = "failed"

\* C14 witness: prepare() has raised after one shard task failed while the
\* other had completed; temp output remains.
C14_Witness ==
    /\ pc = "aborted"
    /\ \E i, j \in 1..Len(task) :
          task[i].st = "failed" /\ task[j].st = "done"
    /\ temp.exists
    /\ DOMAIN temp.files # {}

\* C15: every temp file a shard task writes is at worker id index mod W
\* (index counted from 0) with the stem of its own shard in the name, and
\* no path is written twice, so never by two tasks.
C15_PrivatePaths ==
    /\ \A e \in 1..Len(write_log) :
          LET w == write_log[e]
          IN  /\ w.path.worker = (w.task - 1) % num_workers
              /\ Tail(w.path.name) = <<"events", "part", w.task - 1>>
              /\ w.path \in DOMAIN temp.files \/ w.path \in consumed
    /\ \A e, f \in 1..Len(write_log) :
          e # f => write_log[e].path # write_log[f].path

\* C15 witness: two shard tasks running at once have each written a file
\* of the same type and day, and two tasks given the same worker id have
\* done so one after the other.
C15_Witness ==
    \E e, f \in 1..Len(write_log) :
        /\ write_log[e].task # write_log[f].task
        /\ PartitionKey(write_log[e].path) = PartitionKey(write_log[f].path)
        /\ \/ /\ num_workers = 2
              /\ Running(write_log[e].task)
              /\ Running(write_log[f].task)
           \/ /\ num_workers = 1
              /\ write_log[e].path.worker = write_log[f].path.worker

\* The defining aggregation of a rollup file: the types aggregated, the
\* grouping columns, the aggregate and the rollup column that holds it.
Defining(f) ==
    CASE f = "daily_revenue" ->
           [types |-> {"impression"}, keys |-> {"day"},
            func |-> "sum", col |-> "bid_price", as |-> "sum_bid_price"]
      [] f = "country_purchases" ->
           [types |-> {"purchase"}, keys |-> {"country"},
            func |-> "avg", col |-> "total_price", as |-> "avg_total_price"]
      [] f = "publisher_day_country_revenue" ->
           [types |-> {"impression"},
            keys |-> {"publisher_id", "day", "country"},
            func |-> "sum", col |-> "bid_price", as |-> "sum_bid_price"]
      [] f = "advertiser_type_counts" ->
           [types |-> {"serve", "impression", "click", "purchase"},
            keys |-> {"advertiser_id", "type"},
            func |-> "count", col |-> "*", as |-> "count"]
      [] f = "minute_revenue" ->
           [types |-> {"impression"}, keys |-> {"day", "minute"},
            func |-> "sum", col |-> "bid_price", as |-> "sum_bid_price"]

\* The rows of the final partitions, each by its file and position.
StoredRows(parts) ==
    {p \in (DOMAIN parts) \X (1..Len(Corpus)) : p[2] <= Len(parts[p[1]])}

\* The total of column col over the rows at positions S (nulls left out).
RECURSIVE TotalOver(_, _, _)
TotalOver(S, parts, col) ==
    IF S = {} THEN 0
    ELSE LET p == CHOOSE x \in S : TRUE
             v == parts[p[1]][p[2]][col]
         IN  (IF v = Null THEN 0 ELSE v) + TotalOver(S \ {p}, parts, col)

\* Rollup cell v is the aggregate d of the partition rows at positions S;
\* an average is held as a fraction <<numerator, denominator>>.
IsAggregateOf(v, d, S, parts) ==
    LET present == {p \in S : d.col = "*" \/ parts[p[1]][p[2]][d.col] # Null}
    IN  CASE d.func = "sum" -> v = TotalOver(S, parts, d.col)
          [] d.func = "count" -> v = Cardinality(present)
          [] d.func = "avg" ->
               /\ present # {}
               /\ v[2] > 0
               /\ v[1] * Cardinality(present) = TotalOver(S, parts, d.col) * v[2]

\* C12: every rollup file of the store has exactly one row for each group
\* of its defining aggregation over the final partitions, and the row
\* holds the aggregate of the rows of that group.
C12_RollupConsistency ==
    \A f \in DOMAIN store.aggs \ {"country_revenue"} :
        LET d == Defining(f)
            roll == store.aggs[f]
            rows == {p \in StoredRows(store.parts) :
                        store.parts[p[1]][p[2]].type \in d.types}
            Group(p) == [c \in d.keys |-> store.parts[p[1]][p[2]][c]]
            groups == {Group(p) : p \in rows}
        IN  /\ Len(roll.rows) = Cardinality(groups)
            /\ \A g \in groups :
                  \E i \in 1..Len(roll.rows) :
                     /\ [c \in d.keys |-> roll.rows[i][c]] = g
                     /\ IsAggregateOf(roll.rows[i][d.as], d,
                                      {p \in rows : Group(p) = g}, store.parts)

\* C12 witness: a store built by the parallel ingest from impressions of
\* two days, whose daily_revenue rollup has a row for each day.
C12_Witness ==
    /\ store.program = "prepare_optimized"
    /\ Cardinality(DOMAIN store.parts) = 2
    /\ "daily_revenue" \in DOMAIN store.aggs
    /\ Len(store.aggs["daily_revenue"].rows) = 2
    /\ routed # NotRun

\* C16: a query of the batch that raises is recorded with its error and the
\* loop goes on to the end of the batch; the frame of each query i that
\* succeeds is the content of q<i>.csv, i its 1-based position in the
\* batch; every other index is as it was when run_queries was called: no
\* file carries the index of a query that failed, but one an earlier call
\* on the same out_dir left, unchanged, and on an out_dir that was empty
\* the files are exactly those of the queries that succeeded.
C16_BatchContinues ==
    /\ Len(results) <= Len(batch)
    /\ Len(results) = Len(calls)
    /\ run_pc = "summary" => Len(results) = Len(batch)
    /\ out_dir_before = <<>> =>
          DOMAIN out_files = {i \in 1..Len(results) : calls[i].tag = "df"}
    /\ \A i \in (DOMAIN out_files \cup DOMAIN out_dir_before)
                 \ {j \in 1..Len(results) : calls[j].tag = "df"} :
          /\ i \in DOMAIN out_files
          /\ i \in DOMAIN out_dir_before
          /\ out_files[i] = out_dir_before[i]
    /\ \A i \in 1..Len(results) :
          /\ calls[i].query = batch[i]
          /\ results[i].query = i
          /\ calls[i].tag = "raise" =>
                /\ results[i].error = calls[i].exc
                /\ results[i].error # ""
          /\ calls[i].tag = "df" =>
                /\ results[i].error = ""
                /\ i \in DOMAIN out_files
                /\ out_files[i] = WriteCsv(calls[i].value)

\* C16 witness: run_queries called on an out_dir holding the q1.csv of an
\* earlier call, with a batch of two whose first query failed and whose
\* second succeeded, after the loop: q1.csv is the earlier file and q2.csv
\* is written.
C16_Witness ==
    /\ run_pc = "summary"
    /\ Len(batch) = 2
    /\ results[1].error # ""
    /\ results[2].error = ""
    /\ DOMAIN out_dir_before = {1}
    /\ DOMAIN out_files = {1, 2}
    /\ out_files[1] = out_dir_before[1]
    /\ Len(out_files[2].rows) > 0

\* Two query documents are the same dict up to the order of the keys: the
\* same keys with equal values, the where conditions compared the same way.
SameCondition(a, b) ==
    /\ Range(CondKeys(a)) = Range(CondKeys(b))
    /\ a.col = b.col /\ a.op = b.op /\ a.val = b.val

SameDocument(a, b) ==
    /\ Range(QueryKeys(a)) = Range(QueryKeys(b))
    /\ a.select = b.select /\ a.from = b.from
    /\ a.group_by = b.group_by /\ a.order_by = b.order_by
    /\ Len(a.where) = Len(b.where)
    /\ \A i \in 1..Len(a.where) : SameCondition(a.where[i], b.where[i])

\* C17: documents that differ only in the order of their keys have the
\* same cache key, and a call with one after a call with the other has
\* returned a frame is a cache hit that returns that frame; documents
\* that differ in a value or in the order of a list have different keys,
\* and a cache hit only follows a call with the same document.
C17_CanonicalKey ==
    /\ \A a, b \in KeyDocuments :
          SameDocument(a, b) <=> get_query_hash(a) = get_query_hash(b)
    /\ \A i, j \in 1..Len(calls) :
          (i < j /\ calls[i].tag = "df"
                 /\ SameDocument(calls[i].query, calls[j].query))
          => /\ calls[j].hit
             /\ calls[j].value = calls[i].value
    /\ \A j \in 1..Len(calls) :
          calls[j].hit =>
              \E i \in 1..(j - 1) :
                  /\ calls[i].tag = "df"
                  /\ SameDocument(calls[i].query, calls[j].query)

\* C17 witness: a call with a document, then a call with the same
\* document written in another key order, which was a cache hit.
C17_Witness ==
    /\ Len(calls) = 2
    /\ calls[1].query # calls[2].query
    /\ SameDocument(calls[1].query, calls[2].query)
    /\ calls[2].hit
    /\ Len(calls[2].value.rows) = 2

\* C18: the scan applies the order_by entries in list order, each as a
\* stable sort, ascending when dir is absent: the frame returned is the
\* stable sort, on the last entry, of a frame that applying the entries
\* before it can produce.
C18_StableOrderBy ==
    (scanned.tag = "df" /\ query.order_by # <<>>) =>
        LET n == Len(query.order_by)
            last == query.order_by[n]
        IN  \E columns_needed \in ColumnsNeeded(query) :
              \E prev \in Outcomes(scan_selected(store.parts, query,
                                                 columns_needed),
                                   query.group_by # <<>>,
                                   SubSeq(query.order_by, 1, n - 1)) :
                 LET c == SortColumn(prev.cols, last.col)
                 IN  scanned = IF c = "" THEN prev
                               ELSE Sort(prev, c, last.dir = "desc")

\* The where clause has a condition whose op is not a recognized one.
HasUnknownOp(where) ==
    \E i \in 1..Len(where) : where[i].op \notin {"eq", "neq", "in", "between"}

\* C20: a scan of a query with a where condition whose op is not eq, neq,
\* in or between fails with a Malformed error.
C20_UnknownOpIsMalformed ==
    (scanned # NotRun /\ Shape(query) = "" /\ HasUnknownOp(query.where)) =>
        scanned = Raise("Malformed")

\* C19 (as stated): with no worker count passed, on C cores the
\* memory-conservative ingest takes min(6, ceil(0.75 * C)) workers and the
\* speed ingest min(10, C).
C19_DefaultWorkersCeil ==
    (preparer # "" /\ workers_arg = 0) =>
        LET C == cpu_count
            ceil == CHOOSE n \in 0..C : 4 * n >= 3 * C /\ 4 * (n - 1) < 3 * C
        IN  IF preparer = "prepare_optimized"
            THEN num_workers = (IF ceil < 6 THEN ceil ELSE 6)
            ELSE num_workers = (IF C < 10 THEN C ELSE 10)

\* C19 (amended): with no worker count passed, on C cores the
\* memory-conservative ingest takes min(6, max(1, floor(0.75 * C))) workers
\* and the speed ingest min(10, C).
C19_DefaultWorkersFloor ==
    (preparer # "" /\ workers_arg = 0) =>
        LET C == cpu_count
            floor == CHOOSE n \in 0..C : 4 * n <= 3 * C /\ 4 * (n + 1) > 3 * C
            atleast1 == IF floor < 1 THEN 1 ELSE floor
        IN  IF preparer = "prepare_optimized"
            THEN num_workers = (IF atleast1 < 6 THEN atleast1 ELSE 6)
            ELSE num_workers = (IF C < 10 THEN C ELSE 10)

\* C19 witness: an OptimizedDataPreparer constructed without a worker
\* count on a machine of two cores, with one worker.
C19_Witness ==
    /\ preparer = "prepare_optimized"
    /\ workers_arg = 0
    /\ cpu_count = 2
    /\ num_workers = 1

\* Two sequences of rows hold the same rows the same number of times.
SameBag(x, y) ==
    \A r \in Range(x) \cup Range(y) :
        Cardinality({i \in 1..Len(x) : x[i] = r})
          = Cardinality({i \in 1..Len(y) : y[i] = r})

\* The (type, day) keys of the rows of the input shards.
InputKeys ==
    {<<Corpus[c].type, DayStr(Corpus[c].day)>> :
        c \in {x \in 1..Len(Corpus) : InputCopies(x) > 0}}

\* C21: when prepare() has run a second time on the same input and the
\* same output root, the root holds the partitions the first run left,
\* with the same rows, and the same rollups; every partition is one of
\* the input's (type, day) keys, and temp/ is gone.
C21_IngestIdempotent ==
    (pc = "done" /\ earlier.run = 1) =>
        /\ DOMAIN partitioned = DOMAIN earlier.partitioned
        /\ \A k \in DOMAIN partitioned :
              RowBag(partitioned[k]) = earlier.partitioned[k]
        /\ DOMAIN aggregates = DOMAIN earlier.aggregates
        /\ \A f \in DOMAIN aggregates :
              TableOf(aggregates[f]) = earlier.aggregates[f]
        /\ DOMAIN partitioned = InputKeys
        /\ ~temp.exists

\* C21 witness: the second run of the parallel ingest on two shards has
\* ended, with three partitions and rollups in the output root.
C21_Witness ==
    /\ pc = "done"
    /\ earlier.run = 1
    /\ preparer = "prepare_optimized"
    /\ Len(csv_files) = 2
    /\ Cardinality(DOMAIN partitioned) = 3
    /\ Cardinality(consumed) = 4
    /\ "daily_revenue" \in DOMAIN aggregates

\* C30: without input shards prepare() fails (FileNotFoundError) and does
\* nothing more, and after the failure the output root holds no
\* partition, no rollup and no statistics of the earlier run.
C30_CleanBeforeGlob ==
    csv_files = <<>> =>
        /\ pc \in {"start", "aborted"}
        /\ pc = "aborted" =>
              /\ partitioned = <<>>
              /\ aggregates = <<>>
              /\ stats = NoStats
              /\ ~temp.exists

\* C30 witness: prepare() of the parallel ingest has failed for want of
\* shards, on an output root that held a partition, a rollup and
\* statistics of an earlier run.
C30_Witness ==
    /\ pc = "aborted"
    /\ csv_files = <<>>
    /\ preparer = "prepare_optimized"
    /\ earlier.partitioned # <<>>
    /\ earlier.aggregates # <<>>
    /\ earlier.stats.written
    /\ partitioned = <<>>

\* The rows of all the input shards, in name order of the shards.
InputFrame ==
    Flatten([j \in 1..Len(csv_files) |-> ShardRows(csv_files, j)])

\* Two aggregates/ directories hold the same table in every rollup file
\* both of them have.
SameCommonRollups(a, b) ==
    \A f \in DOMAIN a \cap DOMAIN b :
        /\ a[f].cols = b[f].cols
        /\ SameRows(a[f], b[f])

\* The output root holds the partitions, with the same rows, that
\* DataPreparer writes for the input.
PartitionsAgree ==
    /\ DOMAIN partitioned = DOMAIN CreatePartitions(InputFrame)
    /\ \A k \in DOMAIN partitioned :
          SameBag(partitioned[k], CreatePartitions(InputFrame)[k])

\* The rollups of the output root are those each of the three programs
\* writes for the input, in every file they share.
RollupsAgree ==
    /\ \A b \in create_aggregations(InputFrame) :
          SameCommonRollups(aggregates, b)
    /\ \A b \in compute_aggregates_parallel(partitioned) :
          SameCommonRollups(aggregates, b)
    /\ \A b \in compute_minimal_aggregates(partitioned) :
          SameCommonRollups(aggregates, b)

\* The statistics of the output root are those each of the programs
\* writes for the input.
StatsAgree ==
    /\ stats = DataPreparerStatistics(InputFrame)
    /\ stats = create_statistics(partitioned)

\* C22: the store a prepare program leaves for an input is the store the
\* other programs leave for it: the same (type, day) partitions with the
\* same rows, the same table in every rollup both write, and the same
\* statistics.
C22_ProgramsAgree ==
    pc = "done" => PartitionsAgree /\ RollupsAgree /\ StatsAgree

\* The temp files written for (type, day) key k, as entries of the log.
WrittenFor(k) ==
    {e \in 1..Len(write_log) : PartitionKey(write_log[e].path) = k}

\* C23: when _merge_temp_partitions has returned, partitioned/ has one
\* file for every (type, day) key some temp file was written for and no
\* file for another key; the file of a key with one temp file holds that
\* file's rows unchanged, the file of a key with several holds the rows
\* of all of them, one file after another.
C23_MergeOnePerKey ==
    (preparer \in ParallelPreparers
       /\ pc \in {"aggregates", "stats", "done"}) =>
        /\ DOMAIN partitioned =
              {PartitionKey(write_log[e].path) : e \in 1..Len(write_log)}
        /\ \A k \in DOMAIN partitioned :
              \E l \in Listings(WrittenFor(k)) :
                  partitioned[k] =
                      Flatten([i \in 1..Len(l) |-> write_log[l[i]].rows])

\* C23 witness: the merge has returned after it moved the single temp
\* file of one key and concatenated the two temp files of another.
C23_Witness ==
    /\ pc = "aggregates"
    /\ \E k \in DOMAIN partitioned : Cardinality(WrittenFor(k)) = 1
    /\ \E k \in DOMAIN partitioned :
          /\ Cardinality(WrittenFor(k)) = 2
          /\ Len(partitioned[k]) = 2

\* The results computing query q afresh on the store can give: through its
\* rollup when a shape matches, else through the scan.
FreshOutcomes(q) ==
    IF Shape(q) = "" THEN ScanOutcomes(store.parts, q)
    ELSE RouteOutcomes(store.aggs, q)

\* The outcome of the last call: the frame returned or the error raised.
CallOutcome(c) == IF c.tag = "df" THEN c.value ELSE Raise(c.exc)

\* C24: while the result cache of an engine is disabled, no step changes
\* _query_cache, and every execute_query call is answered by computing
\* the query afresh (never from _query_cache), with a result that
\* computing it with the cache enabled gives.
C24_DisabledCacheUntouched ==
    [][ ~enable_query_cache =>
          /\ query_cache' = query_cache
          /\ calls' # calls =>
                LET c == calls'[Len(calls')]
                IN  /\ ~c.hit
                    /\ CallOutcome(c) \in FreshOutcomes(c.query) ]_vars

\* C24 witness: a query was answered and cached, the cache was disabled,
\* and the same query was answered again by computing it.
C24_Witness ==
    /\ ~enable_query_cache
    /\ Len(calls) = 2
    /\ calls[1].tag = "df"
    /\ calls[2].query = calls[1].query
    /\ get_query_hash(calls[2].query) \in DOMAIN query_cache
    /\ ~calls[2].hit
    /\ calls[2].tag = "df"

\* Call i is a _load_aggregate call that returned the table of file f.
LoadedFile(i, f) ==
    /\ calls[i].tag = "df"
    /\ calls[i].query = [file |-> f]

\* Call i is an execute_query call that went through the rollup route of
\* file f and found the file.
RoutedThrough(i, f) ==
    /\ "select" \in DOMAIN calls[i].query
    /\ ~calls[i].hit
    /\ Shape(calls[i].query) = f
    /\ f \in DOMAIN store.aggs

\* C25: the table _aggregate_cache holds for a file is the table of the
\* file, whatever callers did to the frames they were given; each
\* _load_aggregate call returns that table in an object of its own; and
\* only the first load of a file on the engine is not served from
\* _aggregate_cache.
C25_AggregateCacheIsolated ==
    /\ \A f \in DOMAIN aggregate_cache :
          /\ f \in DOMAIN store.aggs
          /\ heap[aggregate_cache[f]] = store.aggs[f]
    /\ \A i \in 1..Len(calls), f \in RollupFiles :
          LoadedFile(i, f) =>
             /\ calls[i].value = store.aggs[f]
             /\ \A g \in DOMAIN aggregate_cache :
                   aggregate_cache[g] # calls[i].ref
             /\ \A j \in 1..Len(calls) :
                   (j # i /\ calls[j].tag = "df") => calls[j].ref # calls[i].ref
             /\ calls[i].hit <=>
                   \E j \in 1..(i - 1) : LoadedFile(j, f) \/ RoutedThrough(j, f)

\* C25 witness: a rollup file was loaded twice, the second time from
\* _aggregate_cache, after the caller changed in place the frame the
\* first load gave it.
C25_Witness ==
    /\ Len(calls) = 2
    /\ LoadedFile(1, "daily_revenue")
    /\ LoadedFile(2, "daily_revenue")
    /\ calls[1].mutated
    /\ ~calls[1].hit
    /\ calls[2].hit
    /\ Len(calls[2].value.rows) = 2

\* The rows of the partition files of a store that pass every where
\* predicate of a query.
PassingRows(parts, where) ==
    {r \in UNION {Range(parts[k]) : k \in DOMAIN parts} :
        \A i \in 1..Len(where) : ConditionHolds(r, where[i])}

\* The column names a select list asks for: a bare name as it is, an
\* aggregate as "<func>(<col>)" with func in lower case.
NamedColumns(select) ==
    [i \in 1..Len(select) |->
        IF IsStr(select[i]) THEN select[i].col
        ELSE Lower(select[i].func) \o "(" \o select[i].col \o ")"]

\* C26: a scan with a non-empty group_by returns a table with one row per
\* distinct value of the group_by columns among the rows passing all where
\* predicates, and with exactly the select entries as columns, in select
\* order, aggregates named "<func>(<col>)" in lower case.
C26_GroupedScanShape ==
    (scanned # NotRun /\ query.group_by # <<>>) =>
       LET passing == PassingRows(store.parts, query.where)
           groups == {KeyOf(r, query.group_by) : r \in passing}
           shown == SelectSeq(query.group_by,
                              LAMBDA c : InSeq(c, scanned.cols))
       IN  /\ scanned.tag = "df"
           /\ scanned.cols = NamedColumns(query.select)
           /\ Len(scanned.rows) = Cardinality(groups)
           /\ {KeyOf(scanned.rows[i], shown) : i \in 1..Len(scanned.rows)}
                 = {KeyOf(r, shown) : r \in passing}

\* The rollups whose shape test accepts the query.
Matching(q) ==
    {f \in RollupFiles :
        \/ f = "daily_revenue"
              /\ matches_daily_revenue(q.select, q.where, q.group_by)
        \/ f = "publisher_day_country_revenue"
              /\ matches_publisher_day_revenue(q.select, q.where, q.group_by)
        \/ f = "country_purchases"
              /\ matches_country_purchases(q.select, q.where, q.group_by)
        \/ f = "advertiser_type_counts"
              /\ matches_advertiser_type(q.select, q.where, q.group_by)
        \/ f = "minute_revenue"
              /\ matches_minute_revenue(q.select, q.where, q.group_by)}

\* C27: at most one of the five shape tests accepts a query, so the rollup
\* _try_precomputed answers from is the only one whose test accepts it,
\* whatever the order of the tests.
C27_ShapesExclusive ==
    /\ Cardinality(Matching(query)) <= 1
    /\ \A f \in Matching(query) : Shape(query) = f
    /\ (Matching(query) = {}) => Shape(query) = ""
    /\ (routed # NotRun /\ Matching(query) = {}) => routed = None

\* C27 witness: _try_precomputed answered a query grouped by minute whose
\* select list also names publisher_id, from the minute rollup.
C27_Witness ==
    /\ routed.tag = "df"
    /\ query.group_by = <<"minute">>
    /\ InSelect("publisher_id", query.select)
    /\ Matching(query) = {"minute_revenue"}

\* C28: an execute_query call that raises leaves _query_cache as it was
\* (the same keys, the same tables, none for the failing query), and no
\* call of a query that raised before is answered from _query_cache.
C28_RaiseLeavesCache ==
    [][ Len(calls') > Len(calls) =>
          LET c == calls'[Len(calls')]
          IN  /\ c.tag = "raise" =>
                    /\ query_cache' = query_cache
                    /\ \A k \in DOMAIN query_cache :
                          heap'[query_cache[k]] = heap[query_cache[k]]
                    /\ get_query_hash(c.query) \notin DOMAIN query_cache'
              /\ c.hit =>
                    \A i \in 1..Len(calls) :
                       calls[i].query = c.query => calls[i].tag # "raise" ]_vars

\* C28 witness: with the result of one query cached, a call of another
\* query raised, and _query_cache still holds the first result alone.
C28_Witness ==
    /\ Len(calls) = 2
    /\ calls[1].tag = "df"
    /\ Len(calls[1].value.rows) > 0
    /\ calls[2].tag = "raise"
    /\ DOMAIN query_cache = {get_query_hash(calls[1].query)}
    /\ heap[query_cache[get_query_hash(calls[1].query)]] = calls[1].value

\* Two tables with the same columns and the same rows, in any order.
SameContent(x, y) ==
    /\ x.cols = y.cols
    /\ SameBag(x.rows, y.rows)

\* Every cached table is a result of computing its query, and every table
\* a caller received is one too.
CacheAndCallsFresh ==
    /\ \A q \in EngineQueries :
          get_query_hash(q) \in DOMAIN query_cache =>
             heap[query_cache[get_query_hash(q)]] \in FreshOutcomes(q)
    /\ \A i \in 1..Len(calls) :
          calls[i].tag = "df" => calls[i].value \in FreshOutcomes(calls[i].query)

\* C29 as stated: cached tables are fresh results, no key leaves
\* _query_cache, a write to an existing key stores a table equal to the
\* one it replaces, and the callers of one query all receive equal tables,
\* as they do when the calls follow one another.
C29_InterleavedWritesEqual ==
    /\ [](/\ CacheAndCallsFresh
          /\ \A i, j \in 1..Len(calls) :
                (/\ calls[i].tag = "df"
                 /\ calls[j].tag = "df"
                 /\ calls[i].query = calls[j].query)
                   => calls[i].value = calls[j].value)
    /\ [][ \A k \in DOMAIN query_cache :
             /\ k \in DOMAIN query_cache'
             /\ heap'[query_cache'[k]] = heap[query_cache[k]] ]_vars

\* C29 (amended): cached tables are fresh results, no key leaves
\* _query_cache, a write to an existing key stores a table with the
\* columns and the rows of the one it replaces, in an order that may
\* differ, and the callers of one query all receive the same columns and
\* rows, each a table a call on its own can return.
C29_InterleavedWritesSameContent ==
    /\ [](/\ CacheAndCallsFresh
          /\ \A i, j \in 1..Len(calls) :
                (/\ calls[i].tag = "df"
                 /\ calls[j].tag = "df"
                 /\ calls[i].query = calls[j].query)
                   => SameContent(calls[i].value, calls[j].value))
    /\ [][ \A k \in DOMAIN query_cache :
             /\ k \in DOMAIN query_cache'
             /\ SameContent(heap'[query_cache'[k]], heap[query_cache[k]]) ]_vars

\* C29 witness: two calls of one query both missed the cache, both
\* computed and stored their result, and the two tables differ in the
\* order of their rows.
C29_Witness ==
    /\ Len(calls) = 2
    /\ calls[1].query = calls[2].query
    /\ calls[1].tag = "df" /\ ~calls[1].hit
    /\ calls[2].tag = "df" /\ ~calls[2].hit
    /\ calls[1].value # calls[2].value
    /\ SameContent(calls[1].value, calls[2].value)
    /\ get_query_hash(calls[1].query) \in DOMAIN query_cache
====
